---- MODULE Spec2Model ----
(***************************************************************************)
(* A model of the Docker Model Runner client of docker-sdk-go                *)
(* (dockermodelrunner/desktop): the transport wrapper doRequest, the        *)
(* identifier resolver fullModelID, the line decoders of Pull, Push and     *)
(* Chat, and the public operations built from them, run against a server    *)
(* whose answers are chosen nondeterministically.  A second specification   *)
(* models the JSON encoding of a Model's creation time.                     *)
(***************************************************************************)
EXTENDS Integers, Sequences, FiniteSets, TLC

VARIABLES
    pc,        \* position of the running operation
    op,        \* the operation and its arguments: [name, models]
    idx,       \* Remove: 1-based position in op.models; 1 for the other operations
    cur,       \* the identifier in use at position idx (after resolution)
    reqs,      \* the Do calls of the operation, in order, with their response bodies
    fm,        \* the last call of fullModelID: its token, the catalog it decoded, its outcome
    stream,    \* the lines of the response body being scanned
    pos,       \* 1-based index of the next line the scanner delivers
    emitted,   \* arguments handed to the progress callback (Chat: printed chunks), in order
    shown,     \* Pull/Push: progressShown
    removed,   \* Remove: the identifiers of the success lines accumulated in modelRemoved
    res,       \* the values returned by the operation
    tpc,       \* creation-time round trip: position
    tmodel,    \* creation-time round trip: the Model held
    twire,     \* creation-time round trip: the wire record produced by MarshalJSON
    tback,     \* creation-time round trip: the Model produced by UnmarshalJSON
    tagain,    \* creation-time round trip: the wire record of the decoded Model
    lpc,       \* local configuration: position
    lcall,     \* local configuration: the function called and its argument
    env,       \* local configuration: the environment variables and the home directory
    disk,      \* local configuration: the configuration files and the context store
    lres       \* local configuration: what the function returned

vars == <<pc, op, idx, cur, reqs, fm, stream, pos, emitted, shown, removed, res,
          tpc, tmodel, twire, tback, tagain, lpc, lcall, env, disk, lres>>

clientVars == <<pc, op, idx, cur, reqs, fm, stream, pos, emitted, shown, removed, res>>
timeVars == <<tpc, tmodel, twire, tback, tagain>>
localVars == <<lpc, lcall, env, disk, lres>>

----------------------------------------------------------------------------
(* Bounds of the model *)

MaxLines == 3      \* lines in a response stream
MaxCatalog == 2    \* entries in a catalog listing
MaxModels == 2     \* identifiers in a Remove list
MaxSec == 2        \* creation instants lie within MaxSec seconds of the epoch

(* Program constants *)

StatusOK == 200
StatusCreated == 201
StatusNotFound == 404
StatusServiceUnavailable == 503
ShortIDStart == 7
ShortIDEnd == 19
NanosPerSecond == 1000000000

----------------------------------------------------------------------------
(* Strings.  An identifier is named by a TLA+ string; Chars gives its       *)
(* characters, on which the string functions of the code are computed.      *)

Chars(s) ==
    CASE s = "" -> <<>>
      [] s = "model123" -> <<"m", "o", "d", "e", "l", "1", "2", "3">>
      [] s = "abc123456789" -> <<"a", "b", "c", "1", "2", "3", "4", "5", "6", "7", "8", "9">>
      [] s = "abc123456789def" -> <<"a", "b", "c", "1", "2", "3", "4", "5", "6", "7", "8", "9", "d", "e", "f">>
      [] s = "zzz999999999" -> <<"z", "z", "z", "9", "9", "9", "9", "9", "9", "9", "9", "9">>
      [] s = "sha256:abc123456789def" -> <<"s", "h", "a", "2", "5", "6", ":", "a", "b", "c", "1", "2", "3", "4", "5", "6", "7", "8", "9", "d", "e", "f">>
      [] s = "sha256:abc123456789fff" -> <<"s", "h", "a", "2", "5", "6", ":", "a", "b", "c", "1", "2", "3", "4", "5", "6", "7", "8", "9", "f", "f", "f">>
      [] s = "ai/smollm2" -> <<"a", "i", "/", "s", "m", "o", "l", "l", "m", "2">>
      [] s = "/llama" -> <<"/", "l", "l", "a", "m", "a">>

RECURSIVE TrimLeft(_, _)
TrimLeft(cs, c) ==
    IF cs # <<>> /\ Head(cs) = c THEN TrimLeft(Tail(cs), c) ELSE cs

RECURSIVE TrimRight(_, _)
TrimRight(cs, c) ==
    IF cs # <<>> /\ cs[Len(cs)] = c THEN TrimRight(SubSeq(cs, 1, Len(cs) - 1), c) ELSE cs

\* strings.Trim(s, "/")
Trim(cs, c) == TrimRight(TrimLeft(cs, c), c)

\* strings.Contains(s, "/")
Contains(cs, c) == \E i \in 1..Len(cs) : cs[i] = c

\* strings.TrimPrefix(s, prefix)
TrimPrefix(cs, prefix) ==
    IF Len(cs) >= Len(prefix) /\ SubSeq(cs, 1, Len(prefix)) = prefix
    THEN SubSeq(cs, Len(prefix) + 1, Len(cs))
    ELSE cs

Sha256Prefix == <<"s", "h", "a", "2", "5", "6", ":">>

----------------------------------------------------------------------------
(* Errors.  An error value is a record: kind names the message format, arg  *)
(* the value formatted into it with %s, cause the error wrapped with %w     *)
(* ("none" when nothing is wrapped), status and text the response status    *)
(* and body formatted into it.                                              *)

Err(kind, arg, cause, status, text) ==
    [kind |-> kind, arg |-> arg, cause |-> cause, status |-> status, text |-> text]

Nil == Err("nil", "", "none", 0, "")

\* var ErrNotFound = errors.New("model not found")
ErrNotFound == Err("ErrNotFound", "", "none", 0, "")

\* var ErrServiceUnavailable = errors.New("service unavailable")
ErrServiceUnavailable == Err("ErrServiceUnavailable", "", "none", 0, "")

\* The error of a failed Do call: a network error of the injected client.
TransportErr == Err("transport", "", "none", 0, "")

\* errors.Is(err, target): err is target or wraps it.
IsErr(err, target) == err.kind = target.kind \/ err.cause = target.kind

\* The text of err contains the string x formatted into it.
Carries(err, x) == err.kind # "nil" /\ (err.arg = x \/ err.text = x)

----------------------------------------------------------------------------
(* The server.  Do either fails or hands back a response with a status;     *)
(* the body of a response is only known as it is read.                      *)

\* 500 stands for the statuses the code does not name.
Statuses == {StatusOK, StatusCreated, StatusNotFound, StatusServiceUnavailable, 500}

Outcomes == {[ok |-> FALSE, status |-> 0]} \cup {[ok |-> TRUE, status |-> st] : st \in Statuses}

\* The text of a non-streamed response body; ReadAll may fail on it.
BodyTexts == {"", "body"}
BodyReads == {[ok |-> TRUE, text |-> t] : t \in BodyTexts} \cup {[ok |-> FALSE, text |-> ""]}

(* Transport wrapper *)

\* doRequest with the outcome o of its single Do call: the response handed to
\* the caller (resp), the error, and the state of the response body.
doRequest_Generic503(o) ==
    IF ~o.ok THEN [resp |-> FALSE, err |-> TransportErr, body |-> "none"]
    ELSE IF o.status = StatusServiceUnavailable
         THEN [resp |-> FALSE, err |-> TransportErr, body |-> "closed"]
         ELSE [resp |-> TRUE, err |-> Nil, body |-> "open"]

doRequest(o) ==
    IF ~o.ok THEN [resp |-> FALSE, err |-> TransportErr, body |-> "none"]
    ELSE IF o.status = StatusServiceUnavailable
         THEN [resp |-> FALSE, err |-> ErrServiceUnavailable, body |-> "closed"]
         ELSE [resp |-> TRUE, err |-> Nil, body |-> "open"]

handleQueryError(err, path) ==
    IF IsErr(err, ErrServiceUnavailable)
    THEN ErrServiceUnavailable
    ELSE Err("query", path, err.kind, 0, "")

----------------------------------------------------------------------------
(* Progress streams of Pull and Push.  A line is blank, or carries a JSON   *)
(* object {type, message} in one of these wire forms:                       *)
(*   "json"        plain JSON without HTML entities                          *)
(*   "escaped"     HTML-escaped JSON ({&quot;type&quot;:...}): JSON only     *)
(*                 once unescaped                                            *)
(*   "entity"      JSON whose message holds &quot;: unescaping it ends the   *)
(*                 string early and the result is not JSON                   *)
(*   "garbage"     not JSON before or after unescaping                       *)

Line(wire, type, msg) == [wire |-> wire, type |-> type, msg |-> msg]

BlankLine == Line("blank", "", "")

ProgressLines ==
    { BlankLine,
      Line("json", "progress", "p1"), Line("json", "progress", "p2"),
      Line("escaped", "progress", "p1"),
      Line("json", "success", "ok"),
      Line("json", "error", "boom"),
      Line("json", "status", "p1"),
      Line("json", "", "p1"),
      Line("entity", "success", "ok"),
      Line("garbage", "", "") }

\* html.UnescapeString(progressLine): the wire form after unescaping.
UnescapeString(line) ==
    CASE line.wire = "escaped" -> [line EXCEPT !.wire = "json"]
      [] line.wire = "entity" -> [line EXCEPT !.wire = "garbage"]
      [] OTHER -> line

\* json.Unmarshal(b, &progressMsg): the ProgressMessage, or a decode error.
Unmarshal(line) ==
    IF line.wire = "json"
    THEN [ok |-> TRUE, Type |-> line.type, Message |-> line.msg]
    ELSE [ok |-> FALSE, Type |-> "", Message |-> ""]

\* The ProgressMessage a non-blank line decodes to.
DecodeLine(line) == Unmarshal(UnescapeString(line))

Turn(act, val, err) == [act |-> act, val |-> val, err |-> err]

\* The switch on progressMsg.Type in the scanner loop of Pull (and of Push,
\* the same code with "pushing" in its messages): hand the message to the
\* progress callback and go on, or return.
SwitchType_SuccessGoesOn(progressMsg) ==
    CASE progressMsg.Type = "progress" -> Turn("progress", progressMsg.Message, Nil)
      [] progressMsg.Type = "error" ->
            Turn("return", "", Err("stream_error", progressMsg.Message, "none", 0, ""))
      [] progressMsg.Type = "success" -> Turn("skip", "", Nil)
      [] OTHER -> Turn("return", "", Err("unknown_type", progressMsg.Type, "none", 0, ""))

SwitchType_UnknownAsProgress(progressMsg) ==
    CASE progressMsg.Type = "error" ->
            Turn("return", "", Err("stream_error", progressMsg.Message, "none", 0, ""))
      [] progressMsg.Type = "success" -> Turn("return", progressMsg.Message, Nil)
      [] OTHER -> Turn("progress", progressMsg.Message, Nil)

SwitchType_ProgressDropped(progressMsg) ==
    CASE progressMsg.Type = "progress" -> Turn("skip", "", Nil)
      [] progressMsg.Type = "error" ->
            Turn("return", "", Err("stream_error", progressMsg.Message, "none", 0, ""))
      [] progressMsg.Type = "success" -> Turn("return", progressMsg.Message, Nil)
      [] OTHER -> Turn("return", "", Err("unknown_type", progressMsg.Type, "none", 0, ""))

SwitchType_ErrorSkipped(progressMsg) ==
    CASE progressMsg.Type = "progress" -> Turn("progress", progressMsg.Message, Nil)
      [] progressMsg.Type = "error" -> Turn("skip", "", Nil)
      [] progressMsg.Type = "success" -> Turn("return", progressMsg.Message, Nil)
      [] OTHER -> Turn("return", "", Err("unknown_type", progressMsg.Type, "none", 0, ""))

SwitchType(progressMsg) ==
    CASE progressMsg.Type = "progress" -> Turn("progress", progressMsg.Message, Nil)
      [] progressMsg.Type = "error" ->
            Turn("return", "", Err("stream_error", progressMsg.Message, "none", 0, ""))
      [] progressMsg.Type = "success" -> Turn("return", progressMsg.Message, Nil)
      [] OTHER -> Turn("return", "", Err("unknown_type", progressMsg.Type, "none", 0, ""))

\* One turn of the scanner loop of Pull and Push on the line just read.
HandleProgressLine_BadLineSkipped(line) ==
    IF line.wire = "blank" THEN Turn("skip", "", Nil)
    ELSE LET progressMsg == DecodeLine(line) IN
         IF ~progressMsg.ok
         THEN Turn("skip", "", Nil)
         ELSE SwitchType(progressMsg)

HandleProgressLine_BlankDecoded(line) ==
    LET progressMsg == DecodeLine(line) IN
    IF ~progressMsg.ok
    THEN Turn("return", "", Err("parse", "", "json", 0, ""))
    ELSE SwitchType(progressMsg)

HandleProgressLine(line) ==
    IF line.wire = "blank" THEN Turn("skip", "", Nil)
    ELSE LET progressMsg == DecodeLine(line) IN
         IF ~progressMsg.ok
         THEN Turn("return", "", Err("parse", "", "json", 0, ""))
         ELSE SwitchType(progressMsg)

\* The return of Pull and Push once the scanner reports the end of the stream.
EndOfProgressStream_Success(model) == [val |-> "", err |-> Nil]

EndOfProgressStream(model) ==
    [val |-> "", err |-> Err("truncated", model, "none", 0, "")]

\* The scanner loop of Pull and Push over a whole response stream, from its
\* line i on, got being the messages handed to the progress callback so far:
\* what the operation returns and what the callback received.
RECURSIVE ScanProgressFrom(_, _, _, _)
ScanProgressFrom(lines, i, got, model) ==
    IF i > Len(lines)
    THEN LET e == EndOfProgressStream(model) IN
         [val |-> e.val, err |-> e.err, shown |-> got # <<>>, emitted |-> got]
    ELSE LET h == HandleProgressLine(lines[i]) IN
         CASE h.act = "skip" -> ScanProgressFrom(lines, i + 1, got, model)
           [] h.act = "progress" ->
                ScanProgressFrom(lines, i + 1, Append(got, h.val), model)
           [] OTHER -> [val |-> h.val, err |-> h.err, shown |-> got # <<>>, emitted |-> got]

ScanProgress(lines, model) == ScanProgressFrom(lines, 1, <<>>, model)

(* Chat streams: server-sent-event lines.                                   *)
(*   "noprefix"   a line without the "data: " prefix                         *)
(*   "done"       data: [DONE]                                               *)
(*   "data"       data: {...}; type "choice" gives choices[0].delta.content  *)
(*                = msg, type "nochoice" an empty choices list               *)
(*   "baddata"    data: followed by text that is not JSON                    *)

ChatLines ==
    { BlankLine,
      Line("noprefix", "", ""),
      Line("done", "", ""),
      Line("data", "choice", "Hel"), Line("data", "choice", "lo"),
      Line("data", "choice", ""),
      Line("data", "nochoice", ""),
      Line("baddata", "", "") }

\* One turn of the scanner loop of Chat on the line just read.
HandleChatLine_BadDataSkipped(line) ==
    CASE line.wire = "blank" -> Turn("skip", "", Nil)
      [] line.wire = "noprefix" -> Turn("skip", "", Nil)
      [] line.wire = "done" -> Turn("break", "", Nil)
      [] line.wire = "data" ->
            IF line.type = "choice" /\ line.msg # ""
            THEN Turn("progress", line.msg, Nil)
            ELSE Turn("skip", "", Nil)
      [] OTHER -> Turn("skip", "", Nil)

HandleChatLine_DoneSkipped(line) ==
    CASE line.wire = "blank" -> Turn("skip", "", Nil)
      [] line.wire = "noprefix" -> Turn("skip", "", Nil)
      [] line.wire = "done" -> Turn("skip", "", Nil)
      [] line.wire = "data" ->
            IF line.type = "choice" /\ line.msg # ""
            THEN Turn("progress", line.msg, Nil)
            ELSE Turn("skip", "", Nil)
      [] OTHER -> Turn("return", "", Err("parse_stream", "", "json", 0, ""))

HandleChatLine(line) ==
    CASE line.wire = "blank" -> Turn("skip", "", Nil)
      [] line.wire = "noprefix" -> Turn("skip", "", Nil)
      [] line.wire = "done" -> Turn("break", "", Nil)
      [] line.wire = "data" ->
            IF line.type = "choice" /\ line.msg # ""
            THEN Turn("progress", line.msg, Nil)
            ELSE Turn("skip", "", Nil)
      [] OTHER -> Turn("return", "", Err("parse_stream", "", "json", 0, ""))

Streams(lines) == UNION {[1..n -> lines] : n \in 0..MaxLines}

----------------------------------------------------------------------------
(* Identifier resolver *)

\* Canonical identifiers the server may list.  "model123" is the identifier
\* used by the repository's own tests of Model; it is shorter than ShortIDEnd.
CatalogIDs == {"sha256:abc123456789def", "sha256:abc123456789fff", "model123"}

Catalogs == UNION {[1..n -> CatalogIDs] : n \in 0..MaxCatalog}

\* The three predicates of fullModelID on one entry, in the order the code
\* evaluates them; the slice m.ID[7:19] panics on a shorter identifier.
ShortIDOf(cs) == SubSeq(cs, ShortIDStart + 1, ShortIDEnd)

MatchesEntry(mid, id) ==
    \/ ShortIDOf(Chars(mid)) = Chars(id)
    \/ TrimPrefix(Chars(mid), Sha256Prefix) = Chars(id)
    \/ Chars(mid) = Chars(id)

SlicePanics(mid) == Len(Chars(mid)) < ShortIDEnd

Resolution(out, id, err) == [out |-> out, id |-> id, err |-> err]

\* The loop of fullModelID over the decoded catalog, from entry i on.
RECURSIVE ScanCatalog(_, _, _)
ScanCatalog(modelsJSON, id, i) ==
    IF i > Len(modelsJSON)
    THEN Resolution("err", "", Err("id_not_found", id, "none", 0, ""))
    ELSE IF SlicePanics(modelsJSON[i]) THEN Resolution("panic", "", Nil)
    ELSE IF MatchesEntry(modelsJSON[i], id) THEN Resolution("id", modelsJSON[i], Nil)
    ELSE ScanCatalog(modelsJSON, id, i + 1)

\* What reading a listing body yields: ReadAll fails, or the body is not a
\* JSON list of models, or it decodes to a catalog.
ListingReads ==
    {[ok |-> FALSE, json |-> FALSE, text |-> "", catalog |-> <<>>],
     [ok |-> TRUE, json |-> FALSE, text |-> "body", catalog |-> <<>>]}
    \cup {[ok |-> TRUE, json |-> TRUE, text |-> "body", catalog |-> c] : c \in Catalogs}

\* What reading the body of an inspect response yields.
RecordReads ==
    {[ok |-> FALSE, json |-> FALSE, text |-> "", catalog |-> <<>>],
     [ok |-> TRUE, json |-> FALSE, text |-> "body", catalog |-> <<>>],
     [ok |-> TRUE, json |-> TRUE, text |-> "body", catalog |-> <<>>]}

\* listRaw after its doRequest handed back a response with this status:
\* the body, or the error.
listRaw_NotFoundAlways(status, model, read) ==
    IF status # StatusOK
    THEN IF status = StatusNotFound
         THEN [ok |-> FALSE, err |-> Err("not_found", model, "ErrNotFound", 0, "")]
         ELSE [ok |-> FALSE, err |-> Err("list_failed", "", "none", status, "")]
    ELSE IF ~read.ok
         THEN [ok |-> FALSE, err |-> Err("read_body", "", "io", 0, "")]
         ELSE [ok |-> TRUE, err |-> Nil]

listRaw(status, model, read) ==
    IF status # StatusOK
    THEN IF model # "" /\ status = StatusNotFound
         THEN [ok |-> FALSE, err |-> Err("not_found", model, "ErrNotFound", 0, "")]
         ELSE [ok |-> FALSE, err |-> Err("list_failed", "", "none", status, "")]
    ELSE IF ~read.ok
         THEN [ok |-> FALSE, err |-> Err("read_body", "", "io", 0, "")]
         ELSE [ok |-> TRUE, err |-> Nil]

\* fullModelID after listRaw's request handed back a response.
fullModelID(id, status, read) ==
    LET bodyResponse == listRaw(status, "", read) IN
    IF ~bodyResponse.ok THEN Resolution("err", "", bodyResponse.err)
    ELSE IF ~read.json THEN Resolution("err", "", Err("unmarshal", "", "json", 0, ""))
    ELSE ScanCatalog(read.catalog, id, 1)

\* The test each operation makes to decide that an identifier needs no
\* resolution.
LooksCanonicalTrimmed_LeadingOnly(model) ==
    Chars(model) # <<>> /\ Head(Chars(model)) = "/"

LooksCanonicalTrimmed(model) == Contains(Trim(Chars(model), "/"), "/")

LooksCanonicalRemove(model) == Contains(Chars(model), "/")

----------------------------------------------------------------------------
(* Operations *)

\* Identifiers callers pass.
Tokens == {"", "model123", "abc123456789", "abc123456789def", "zzz999999999",
           "sha256:abc123456789def", "ai/smollm2", "/llama"}

\* The identifiers tried with the streaming and batch operations.
FewTokens == {"abc123456789", "ai/smollm2", "/llama"}

RemoveLists == UNION {[1..n -> FewTokens] : n \in 0..MaxModels}

ResolvingOps == {"Inspect", "InspectOpenAI", "Chat", "Tag", "Remove"}
ProgressOps == {"Pull", "Push"}
ListingOps == {"List", "ListOpenAI", "Inspect", "InspectOpenAI"}

\* Whether the operation resolves model through fullModelID before its request.
NeedsResolve(name, model) ==
    CASE name = "Inspect" -> model # "" /\ ~LooksCanonicalTrimmed(model)
      [] name \in {"InspectOpenAI", "Chat", "Tag"} -> ~LooksCanonicalTrimmed(model)
      [] name = "Remove" -> ~LooksCanonicalRemove(model)
      [] OTHER -> FALSE

Method(name) ==
    CASE name \in {"Pull", "Push", "Chat", "Tag"} -> "POST"
      [] name = "Remove" -> "DELETE"
      [] OTHER -> "GET"

\* The path of the operation's own request; {id} stands for the identifier,
\* recorded beside it.
Path(name) ==
    CASE name = "Pull" -> "/models/create"
      [] name = "Push" -> "/models/{id}/push"
      [] name = "List" -> "/models"
      [] name = "Status" -> "/models"
      [] name = "ListOpenAI" -> "/engines/v1/models"
      [] name = "Inspect" -> "/models/{id}"
      [] name = "InspectOpenAI" -> "/engines/v1/models/{id}"
      [] name = "Chat" -> "/engines/v1/chat/completions"
      [] name = "Remove" -> "/models/{id}?force"
      [] name = "Tag" -> "/models/{id}/tag"

\* Nothing was read from a response body.
NoRead == [done |-> FALSE, ok |-> FALSE, text |-> ""]

Request(method, path, id, status, body) ==
    [method |-> method, path |-> path, id |-> id, status |-> status, body |-> body,
     deferred |-> FALSE, read |-> NoRead]

\* io.ReadAll(resp.Body) on the last response yields read.
ReadAll(rs, read) ==
    [rs EXCEPT ![Len(rs)].read = [done |-> TRUE, ok |-> read.ok, text |-> read.text]]

\* defer resp.Body.Close(), the statement after the error check of doRequest.
Defer_Forgotten(rq) == rq

Defer(rq) == IF rq.body = "open" THEN [rq EXCEPT !.deferred = TRUE] ELSE rq

\* A deferred Close runs.
RunDeferred(rq) == IF rq.deferred /\ rq.body = "open" THEN [rq EXCEPT !.body = "closed"] ELSE rq

\* The deferred resp.Body.Close() calls, run when the operation returns or panics.
CloseAll(rs) == [i \in 1..Len(rs) |-> RunDeferred(rs[i])]

\* listRaw's deferred Close of the response it obtained, the last one.
CloseLast(rs) == [rs EXCEPT ![Len(rs)] = RunDeferred(rs[Len(rs)])]

Result(val, err, running) == [val |-> val, err |-> err, running |-> running]

NoResult == Result("", Nil, FALSE)

NoCall == [called |-> FALSE, token |-> "", fetched |-> FALSE, catalog |-> <<>>,
           out |-> "none", id |-> "", err |-> Nil]

\* The operation returns.
Return(rs, val, err, running) ==
    /\ pc' = "done"
    /\ res' = Result(val, err, running)
    /\ reqs' = CloseAll(rs)

\* A call of an operation on the client.  The client holds no state between
\* calls, so a behaviour is one call.
Begin(name, models) ==
    /\ pc = "idle"
    /\ op' = [name |-> name, models |-> models]
    /\ idx' = 1
    /\ cur' = IF models = <<>> THEN "" ELSE models[1]
    /\ fm' = NoCall
    /\ stream' = <<>>
    /\ pos' = 1
    /\ emitted' = <<>>
    /\ shown' = FALSE
    /\ removed' = <<>>
    /\ IF name = "Remove" /\ models = <<>>
       THEN Return(<<>>, "", Nil, FALSE)
       ELSE /\ pc' = IF NeedsResolve(name, models[1]) THEN "resolve" ELSE "send"
            /\ res' = NoResult
            /\ reqs' = <<>>
    /\ UNCHANGED <<timeVars, localVars>>

StartStatus == Begin("Status", <<"">>)
StartPull == \E model \in {"ai/smollm2", "abc123456789"} : Begin("Pull", <<model>>)
StartPush == \E model \in {"ai/smollm2", "abc123456789"} : Begin("Push", <<model>>)
StartList == Begin("List", <<"">>)
StartListOpenAI == Begin("ListOpenAI", <<"">>)
StartInspect == \E model \in Tokens : Begin("Inspect", <<model>>)
StartInspectOpenAI == \E model \in Tokens : Begin("InspectOpenAI", <<model>>)
StartChat == \E model \in FewTokens : Begin("Chat", <<model>>)
StartTag == \E source \in FewTokens : Begin("Tag", <<source>>)
StartRemove == \E models \in RemoveLists : Begin("Remove", models)

\* What the operation does with the outcome r of fullModelID(cur), its
\* requests so far being rs.
Resolved(rs, r, fetched, catalog) ==
    /\ fm' = [called |-> TRUE, token |-> cur, fetched |-> fetched, catalog |-> catalog,
              out |-> r.out, id |-> r.id, err |-> r.err]
    /\ CASE r.out = "panic" ->
              /\ pc' = "panic"
              /\ reqs' = CloseAll(rs)
              /\ UNCHANGED <<cur, res>>
         [] r.out = "id" ->
              /\ pc' = "send"
              /\ cur' = r.id
              /\ reqs' = rs
              /\ UNCHANGED res
         [] r.out = "err" /\ op.name = "Inspect" ->
              /\ Return(rs, "", Err("invalid_name", cur, "none", 0, ""), FALSE)
              /\ UNCHANGED cur
         [] r.out = "err" /\ op.name = "InspectOpenAI" ->
              \* model, err = c.fullModelID(model) has overwritten model
              /\ Return(rs, "", Err("invalid_name", r.id, "none", 0, ""), FALSE)
              /\ cur' = r.id
         [] OTHER ->
              /\ pc' = "send"
              /\ reqs' = rs
              /\ UNCHANGED <<cur, res>>
    /\ UNCHANGED <<op, idx, stream, pos, emitted, shown, removed, timeVars, localVars>>

\* fullModelID: the catalog listing request of listRaw.
ResolveSend_CachedCatalog ==
    /\ pc = "resolve"
    /\ IF fm.fetched
       THEN Resolved(reqs, ScanCatalog(fm.catalog, cur, 1), TRUE, fm.catalog)
       ELSE \E o \in Outcomes :
               LET r == doRequest(o)
                   rs == Append(reqs, Defer(Request("GET", "/models", "", o.status, r.body)))
               IN IF r.resp
                  THEN /\ pc' = "resolving"
                       /\ reqs' = rs
                       /\ UNCHANGED <<op, idx, cur, fm, stream, pos, emitted, shown, removed,
                                      res, timeVars, localVars>>
                  ELSE Resolved(rs, Resolution("err", "", handleQueryError(r.err, "/models")),
                                FALSE, <<>>)

ResolveSend ==
    /\ pc = "resolve"
    /\ \E o \in Outcomes :
        LET r == doRequest(o)
            rs == Append(reqs, Defer(Request("GET", "/models", "", o.status, r.body)))
        IN IF r.resp
           THEN /\ pc' = "resolving"
                /\ reqs' = rs
                /\ UNCHANGED <<op, idx, cur, fm, stream, pos, emitted, shown, removed, res,
                               timeVars, localVars>>
           ELSE Resolved(rs, Resolution("err", "", handleQueryError(r.err, "/models")),
                         FALSE, <<>>)

\* fullModelID: the rest of listRaw, the decoding of the catalog and the scan.
ResolveRecv ==
    /\ pc = "resolving"
    /\ \E read \in ListingReads :
        LET status == reqs[Len(reqs)].status
            r == fullModelID(cur, status, read)
            fetched == status = StatusOK /\ read.ok /\ read.json
        IN Resolved(CloseLast(reqs), r, fetched, IF fetched THEN read.catalog ELSE <<>>)

LastStatus == reqs[Len(reqs)].status

\* The operation's own request: doRequest, and the return on its failure.
Send_RetryOnce ==
    /\ pc = "send"
    /\ \E o \in Outcomes :
        LET r == doRequest(o)
            rs == Append(reqs, Defer(Request(Method(op.name), Path(op.name), cur, o.status,
                                             r.body)))
            err == handleQueryError(r.err, Path(op.name))
        IN IF r.resp
           THEN /\ pc' = "recv"
                /\ reqs' = rs
                /\ UNCHANGED res
           ELSE IF reqs = <<>> \/ reqs[Len(reqs)].status \notin {0, StatusServiceUnavailable}
                THEN /\ pc' = "send"
                     /\ reqs' = rs
                     /\ UNCHANGED res
                ELSE Return(rs, "", err, FALSE)
    /\ UNCHANGED <<op, idx, cur, fm, stream, pos, emitted, shown, removed, timeVars, localVars>>

Send ==
    /\ pc = "send"
    /\ \E o \in Outcomes :
        LET r == doRequest(o)
            rs == Append(reqs, Defer(Request(Method(op.name), Path(op.name), cur, o.status,
                                             r.body)))
            err == handleQueryError(r.err, Path(op.name))
        IN IF r.resp
           THEN /\ pc' = "recv"
                /\ reqs' = rs
                /\ UNCHANGED res
           ELSE IF op.name = "Status" /\ IsErr(err, ErrServiceUnavailable)
                THEN Return(rs, "", Nil, FALSE)
                ELSE Return(rs, "", err, FALSE)
    /\ UNCHANGED <<op, idx, cur, fm, stream, pos, emitted, shown, removed, timeVars, localVars>>

\* Pull, Push, Chat: the status check, then the scanner is set on the body.
RecvStream_AnyStatusDecoded ==
    /\ pc = "recv"
    /\ op.name \in ProgressOps \cup {"Chat"}
    /\ \E lines \in Streams(IF op.name = "Chat" THEN ChatLines ELSE ProgressLines) :
          stream' = lines
    /\ pos' = 1
    /\ pc' = "scan"
    /\ UNCHANGED <<reqs, res>>
    /\ UNCHANGED <<op, idx, cur, fm, emitted, shown, removed, timeVars, localVars>>

RecvStream ==
    /\ pc = "recv"
    /\ op.name \in ProgressOps \cup {"Chat"}
    /\ IF LastStatus # StatusOK
       THEN /\ \E read \in BodyReads :
                 Return(ReadAll(reqs, read), "",
                        Err(IF op.name = "Chat" THEN "chat_status" ELSE "status",
                            IF op.name = "Chat" THEN "" ELSE cur,
                            "none", LastStatus, read.text), FALSE)
            /\ UNCHANGED <<stream, pos>>
       ELSE /\ \E lines \in Streams(IF op.name = "Chat" THEN ChatLines ELSE ProgressLines) :
                 stream' = lines
            /\ pos' = 1
            /\ pc' = "scan"
            /\ UNCHANGED <<reqs, res>>
    /\ UNCHANGED <<op, idx, cur, fm, emitted, shown, removed, timeVars, localVars>>

\* Pull, Push: the scanner delivers the next line.
ScanProgressLine_FlagLeftUnset ==
    /\ pc = "scan"
    /\ op.name \in ProgressOps
    /\ pos <= Len(stream)
    /\ pos' = pos + 1
    /\ LET h == HandleProgressLine(stream[pos]) IN
       CASE h.act = "skip" -> UNCHANGED <<pc, reqs, res, emitted, shown>>
         [] h.act = "progress" ->
              /\ emitted' = Append(emitted, h.val)
              /\ UNCHANGED <<pc, reqs, res, shown>>
         [] OTHER ->
              /\ Return(reqs, h.val, h.err, FALSE)
              /\ UNCHANGED <<emitted, shown>>
    /\ UNCHANGED <<op, idx, cur, fm, stream, removed, timeVars, localVars>>

ScanProgressLine ==
    /\ pc = "scan"
    /\ op.name \in ProgressOps
    /\ pos <= Len(stream)
    /\ pos' = pos + 1
    /\ LET h == HandleProgressLine(stream[pos]) IN
       CASE h.act = "skip" -> UNCHANGED <<pc, reqs, res, emitted, shown>>
         [] h.act = "progress" ->
              /\ emitted' = Append(emitted, h.val)
              /\ shown' = TRUE
              /\ UNCHANGED <<pc, reqs, res>>
         [] OTHER ->
              /\ Return(reqs, h.val, h.err, FALSE)
              /\ UNCHANGED <<emitted, shown>>
    /\ UNCHANGED <<op, idx, cur, fm, stream, removed, timeVars, localVars>>

\* Pull, Push: the scanner reports the end of the stream.
ScanProgressEnd_Waits ==
    /\ pc = "scan"
    /\ op.name \in ProgressOps
    /\ pos > Len(stream)
    /\ UNCHANGED vars

ScanProgressEnd ==
    /\ pc = "scan"
    /\ op.name \in ProgressOps
    /\ pos > Len(stream)
    /\ LET e == EndOfProgressStream(cur) IN Return(reqs, e.val, e.err, FALSE)
    /\ UNCHANGED <<op, idx, cur, fm, stream, pos, emitted, shown, removed, timeVars, localVars>>

\* Chat: the scanner delivers the next line.
ScanChatLine ==
    /\ pc = "scan"
    /\ op.name = "Chat"
    /\ pos <= Len(stream)
    /\ pos' = pos + 1
    /\ LET h == HandleChatLine(stream[pos]) IN
       CASE h.act = "skip" -> UNCHANGED <<pc, reqs, res, emitted>>
         [] h.act = "progress" ->
              /\ emitted' = Append(emitted, h.val)
              /\ UNCHANGED <<pc, reqs, res>>
         [] OTHER ->
              \* break on [DONE] (scanner.Err() is nil), or the decode error
              /\ Return(reqs, "", h.err, FALSE)
              /\ UNCHANGED emitted
    /\ UNCHANGED <<op, idx, cur, fm, stream, shown, removed, timeVars, localVars>>

\* Chat: scanner.Scan() returns false after the lines of stream: the body
\* was read to its end (scanner.Err() is nil), or reading it failed.
ScanChatEnd_Truncated ==
    /\ pc = "scan"
    /\ op.name = "Chat"
    /\ pos > Len(stream)
    /\ \E ok \in BOOLEAN :
        LET rs == ReadAll(reqs, [ok |-> ok, text |-> ""]) IN
        IF ok
        THEN Return(rs, "", Err("truncated", cur, "none", 0, ""), FALSE)
        ELSE Return(rs, "", Err("read_stream", "", "io", 0, ""), FALSE)
    /\ UNCHANGED <<op, idx, cur, fm, stream, pos, emitted, shown, removed, timeVars, localVars>>

ScanChatEnd ==
    /\ pc = "scan"
    /\ op.name = "Chat"
    /\ pos > Len(stream)
    /\ \E ok \in BOOLEAN :
        LET rs == ReadAll(reqs, [ok |-> ok, text |-> ""]) IN
        IF ok
        THEN Return(rs, "", Nil, FALSE)
        ELSE Return(rs, "", Err("read_stream", "", "io", 0, ""), FALSE)
    /\ UNCHANGED <<op, idx, cur, fm, stream, pos, emitted, shown, removed, timeVars, localVars>>

\* List, ListOpenAI, Inspect, InspectOpenAI: the rest of listRaw and the decoding.
RecvListing ==
    /\ pc = "recv"
    /\ op.name \in ListingOps
    /\ \E read \in RecordReads :
        LET rawResponse == listRaw(LastStatus, cur, read)
            rs == CloseLast(IF LastStatus = StatusOK THEN ReadAll(reqs, read) ELSE reqs)
        IN IF ~rawResponse.ok THEN Return(rs, "", rawResponse.err, FALSE)
           ELSE IF ~read.json
                THEN Return(rs, "", Err("unmarshal", "", "json", 0, ""), FALSE)
                ELSE Return(rs, read.text, Nil, FALSE)
    /\ UNCHANGED <<op, idx, cur, fm, stream, pos, emitted, shown, removed, timeVars, localVars>>

\* Tag: the status check and the read of the body.
RecvTag_AnySuccess ==
    /\ pc = "recv"
    /\ op.name = "Tag"
    /\ \E read \in BodyReads :
        LET rs == ReadAll(reqs, read) IN
        IF LastStatus \notin {StatusOK, StatusCreated}
        THEN Return(rs, "", Err("tag_failed", "", "none", LastStatus, read.text), FALSE)
        ELSE IF ~read.ok
             THEN Return(rs, "", Err("read_body", "", "io", 0, ""), FALSE)
             ELSE Return(rs, read.text, Nil, FALSE)
    /\ UNCHANGED <<op, idx, cur, fm, stream, pos, emitted, shown, removed, timeVars, localVars>>

RecvTag ==
    /\ pc = "recv"
    /\ op.name = "Tag"
    /\ \E read \in BodyReads :
        LET rs == ReadAll(reqs, read) IN
        IF LastStatus # StatusCreated
        THEN Return(rs, "", Err("tag_failed", "", "none", LastStatus, read.text), FALSE)
        ELSE IF ~read.ok
             THEN Return(rs, "", Err("read_body", "", "io", 0, ""), FALSE)
             ELSE Return(rs, read.text, Nil, FALSE)
    /\ UNCHANGED <<op, idx, cur, fm, stream, pos, emitted, shown, removed, timeVars, localVars>>

\* Remove: the error returned for a DELETE answered with a status other than 200.
RemoveError_NotFoundAsGeneric(status, model, read) ==
    Err("remove_failed", model, "none", status,
        IF read.ok THEN read.text ELSE "(failed to read response body)")

RemoveError(status, model, read) ==
    IF status = StatusNotFound
    THEN Err("no_such_model", model, "none", 0, "")
    ELSE Err("remove_failed", model, "none", status,
             IF read.ok THEN read.text ELSE "(failed to read response body)")

\* Remove: the status check of one DELETE, and the step to the next identifier.
RecvRemove ==
    /\ pc = "recv"
    /\ op.name = "Remove"
    /\ IF LastStatus # StatusOK
       THEN /\ \E read \in BodyReads :
                 Return(reqs, "", RemoveError(LastStatus, cur, read), FALSE)
            /\ UNCHANGED <<idx, cur, removed>>
       ELSE /\ removed' = Append(removed, cur)
            /\ IF idx < Len(op.models)
               THEN /\ idx' = idx + 1
                    /\ cur' = op.models[idx + 1]
                    /\ pc' = IF NeedsResolve("Remove", op.models[idx + 1])
                             THEN "resolve" ELSE "send"
                    /\ UNCHANGED <<reqs, res>>
               ELSE /\ Return(reqs, "", Nil, FALSE)
                    /\ UNCHANGED <<idx, cur>>
    /\ UNCHANGED <<op, fm, stream, pos, emitted, shown, timeVars, localVars>>

\* Status: the check of the listing response.
RecvStatus_AnySuccessRunning ==
    /\ pc = "recv"
    /\ op.name = "Status"
    /\ IF LastStatus \in {StatusOK, StatusCreated}
       THEN /\ pc' = "status"
            /\ UNCHANGED <<reqs, res>>
       ELSE Return(reqs, "", Err("unexpected_status", "", "none", LastStatus, ""), FALSE)
    /\ UNCHANGED <<op, idx, cur, fm, stream, pos, emitted, shown, removed, timeVars, localVars>>

RecvStatus ==
    /\ pc = "recv"
    /\ op.name = "Status"
    /\ IF LastStatus = StatusOK
       THEN /\ pc' = "status"
            /\ UNCHANGED <<reqs, res>>
       ELSE Return(reqs, "", Err("unexpected_status", "", "none", LastStatus, ""), FALSE)
    /\ UNCHANGED <<op, idx, cur, fm, stream, pos, emitted, shown, removed, timeVars, localVars>>

\* Status: the request for the status text.
StatusSend_FailureReturned ==
    /\ pc = "status"
    /\ \E o \in Outcomes :
        LET r == doRequest(o)
            rs == Append(reqs, Defer(Request("GET", "/engines/status", "", o.status, r.body)))
        IN IF r.resp
           THEN /\ pc' = "statusrecv"
                /\ reqs' = rs
                /\ UNCHANGED res
           ELSE Return(rs, "", handleQueryError(r.err, "/engines/status"), FALSE)
    /\ UNCHANGED <<op, idx, cur, fm, stream, pos, emitted, shown, removed, timeVars, localVars>>

StatusSend ==
    /\ pc = "status"
    /\ \E o \in Outcomes :
        LET r == doRequest(o)
            rs == Append(reqs, Defer(Request("GET", "/engines/status", "", o.status, r.body)))
        IN IF r.resp
           THEN /\ pc' = "statusrecv"
                /\ reqs' = rs
                /\ UNCHANGED res
           ELSE Return(rs, "error querying status", Nil, TRUE)
    /\ UNCHANGED <<op, idx, cur, fm, stream, pos, emitted, shown, removed, timeVars, localVars>>

\* Status: the read of the status text.
StatusRecv ==
    /\ pc = "statusrecv"
    /\ \E read \in BodyReads :
        Return(reqs, IF read.ok THEN read.text ELSE "error reading status body", Nil, TRUE)
    /\ UNCHANGED <<op, idx, cur, fm, stream, pos, emitted, shown, removed, timeVars, localVars>>

----------------------------------------------------------------------------
(* The creation time of a Model on the wire *)

\* A time.Time: whole seconds since the Unix epoch and the nanoseconds within
\* the second.
Instant(sec, nsec) == [sec |-> sec, nsec |-> nsec]

\* time.Unix(sec, nsec)
TimeUnix_Milli(sec, nsec) == Instant(sec \div 1000, nsec % NanosPerSecond)

TimeUnix(sec, nsec) == Instant(sec + (nsec \div NanosPerSecond), nsec % NanosPerSecond)

\* Time.Unix()
Unix_Rounded(t) == IF 2 * t.nsec >= NanosPerSecond THEN t.sec + 1 ELSE t.sec

Unix(t) == t.sec

ZeroModel == [ID |-> "", Tags |-> <<>>, Created |-> Instant(0, 0)]

\* Model.MarshalJSON: the wire record; CreatedAt shadows the embedded Created.
MarshalJSON(mr) ==
    [id |-> mr.ID, tags |-> mr.Tags, created |-> Unix(mr.Created), createdIsInt |-> TRUE]

\* Model.UnmarshalJSON of a wire record.
UnmarshalJSON(b) ==
    IF ~b.createdIsInt
    THEN [ok |-> FALSE, model |-> ZeroModel, err |-> Err("unmarshal_model", "", "json", 0, "")]
    ELSE [ok |-> TRUE,
          model |-> [ID |-> b.id, Tags |-> b.tags, Created |-> TimeUnix(b.created, 0)],
          err |-> Nil]

Seconds == (0 - MaxSec)..MaxSec
Nanos == {0, 1, NanosPerSecond - 1}
TagLists == {<<>>, <<"tag1", "tag2">>}
WireIDs == {"model123", "ai/smollm2"}

NoWire == [id |-> "", tags |-> <<>>, created |-> 0, createdIsInt |-> TRUE]
NoBack == [ok |-> FALSE, model |-> ZeroModel, err |-> Nil]

\* A Model is built by the program.
HoldModel ==
    /\ tpc = "idle"
    /\ \E sec \in Seconds, nsec \in Nanos, tags \in TagLists :
         tmodel' = [ID |-> "model123", Tags |-> tags, Created |-> Instant(sec, nsec)]
    /\ twire' = NoWire
    /\ tback' = NoBack
    /\ tagain' = NoWire
    /\ tpc' = "held"
    /\ UNCHANGED <<clientVars, localVars>>

\* json.Marshal of the Model held.
Marshal ==
    /\ tpc = "held"
    /\ twire' = MarshalJSON(tmodel)
    /\ tpc' = "encoded"
    /\ UNCHANGED <<tmodel, tback, tagain, clientVars, localVars>>

\* A wire record arrives from the server.
ReceiveWire ==
    /\ tpc = "idle"
    /\ \E id \in WireIDs, sec \in Seconds, tags \in TagLists, isInt \in BOOLEAN :
         twire' = [id |-> id, tags |-> tags, created |-> IF isInt THEN sec ELSE 0,
                   createdIsInt |-> isInt]
    /\ tmodel' = ZeroModel
    /\ tback' = NoBack
    /\ tagain' = NoWire
    /\ tpc' = "received"
    /\ UNCHANGED <<clientVars, localVars>>

\* json.Unmarshal of the wire record into a Model.
DecodeWire ==
    /\ tpc \in {"encoded", "received"}
    /\ tback' = UnmarshalJSON(twire)
    /\ tpc' = "decoded"
    /\ UNCHANGED <<tmodel, twire, tagain, clientVars, localVars>>

\* json.Marshal of the Model that was decoded.
EncodeAgain ==
    /\ tpc = "decoded"
    /\ tback.ok
    /\ tagain' = MarshalJSON(tback.model)
    /\ tpc' = "reencoded"
    /\ UNCHANGED <<tmodel, twire, tback, clientVars, localVars>>

----------------------------------------------------------------------------
(* Local configuration: dockerconfig.Load and dockercontext.Current.  The   *)
(* environment gives DOCKER_HOST, DOCKER_CONTEXT, DOCKER_AUTH_CONFIG and     *)
(* DOCKER_CONFIG and the home directory; a path is the sequence of its       *)
(* names.                                                                    *)

DefaultContextName == "default"
EnvOverrideContext == "DOCKER_CONTEXT"
EnvOverrideHost == "DOCKER_HOST"
EnvOverrideDir == "DOCKER_CONFIG"
EnvAuthConfig == "DOCKER_AUTH_CONFIG"
FileName == "config.json"

\* The texts of a configuration, in DOCKER_AUTH_CONFIG or in a file.
ConfigTexts == {"{}", "{currentContext:ctx-a}", "{currentContext:ctx-b}", "{not json"}

Config(ctx) == [CurrentContext |-> ctx]

\* json.Unmarshal of a text into a Config.
DecodeConfig(text) ==
    CASE text = "{}" -> [ok |-> TRUE, cfg |-> Config("")]
      [] text = "{currentContext:ctx-a}" -> [ok |-> TRUE, cfg |-> Config("ctx-a")]
      [] text = "{currentContext:ctx-b}" -> [ok |-> TRUE, cfg |-> Config("ctx-b")]
      [] OTHER -> [ok |-> FALSE, cfg |-> Config("")]

\* The names of a directory given as text.
PathOf(dir) ==
    CASE dir = "/cfg" -> <<"cfg">>
      [] dir = "/home/u" -> <<"home", "u">>
      [] OTHER -> <<>>

\* filepath.Join
Join(a, b) == a \o b

ConfigDirs == {"", "/cfg"}
HomeDirs == {"", "/home/u"}
ConfigFiles == {Join(PathOf("/cfg"), <<FileName>>), Join(PathOf("/home/u"), <<".docker", FileName>>)}

\* What is at the path of a configuration file: nothing that can be opened,
\* or a file with a text.
FileStates == {"missing"} \cup ConfigTexts

Environments ==
    [DOCKER_HOST : {"", "tcp://1.2.3.4:2375"},
     DOCKER_CONTEXT : {"", "ctx-env"},
     DOCKER_AUTH_CONFIG : {""} \cup ConfigTexts,
     DOCKER_CONFIG : ConfigDirs,
     HOME : HomeDirs]

\* os.Getenv
Getenv(name) == env[name]

\* What a function of this part returns: a text, a Config, an error, the
\* files it opened, and the contexts it listed.
Local(val, cfg, err, opened, list) ==
    [val |-> val, cfg |-> cfg, err |-> err, opened |-> opened, list |-> list]

NoLocal == Local("", Config(""), Nil, <<>>, <<>>)

\* The function called and its argument.
Called(fn, arg) == [fn |-> fn, arg |-> arg]

getHomeDir == env.HOME

UserHomeConfigPath ==
    IF getHomeDir = ""
    THEN [ok |-> FALSE, path |-> <<>>]
    ELSE [ok |-> TRUE, path |-> Join(PathOf(getHomeDir), <<".docker", FileName>>)]

ConfigPath ==
    IF Getenv(EnvOverrideDir) # ""
    THEN [ok |-> TRUE, path |-> Join(PathOf(Getenv(EnvOverrideDir)), <<FileName>>)]
    ELSE UserHomeConfigPath

\* FromFile: os.Open and the decoding of the file.
FromFile(configPath) ==
    IF disk.files[configPath] = "missing"
    THEN Local("", Config(""), Err("open_config", "", "os", 0, ""), <<configPath>>, <<>>)
    ELSE IF ~DecodeConfig(disk.files[configPath]).ok
         THEN Local("", Config(""), Err("decode_config", "", "json", 0, ""), <<configPath>>, <<>>)
         ELSE Local("", DecodeConfig(disk.files[configPath]).cfg, Nil, <<configPath>>, <<>>)

LoadDefaultConfig ==
    IF ~ConfigPath.ok
    THEN Local("", Config(""), Err("config_path", "", "home", 0, ""), <<>>, <<>>)
    ELSE FromFile(ConfigPath.path)

Load_FallBackToFile ==
    IF Getenv(EnvAuthConfig) # "" /\ DecodeConfig(Getenv(EnvAuthConfig)).ok
    THEN Local("", DecodeConfig(Getenv(EnvAuthConfig)).cfg, Nil, <<>>, <<>>)
    ELSE LoadDefaultConfig

Load ==
    IF Getenv(EnvAuthConfig) # ""
    THEN IF ~DecodeConfig(Getenv(EnvAuthConfig)).ok
         THEN Local("", Config(""), Err("unmarshal_auth_config", "", "json", 0, ""), <<>>, <<>>)
         ELSE Local("", DecodeConfig(Getenv(EnvAuthConfig)).cfg, Nil, <<>>, <<>>)
    ELSE LoadDefaultConfig

\* Current: the name of the current context.
Current ==
    IF Load.err # Nil THEN DefaultContextName
    ELSE IF Getenv(EnvOverrideHost) # "" THEN DefaultContextName
    ELSE IF Getenv(EnvOverrideContext) # "" THEN Getenv(EnvOverrideContext)
    ELSE IF Load.cfg.CurrentContext # "" THEN Load.cfg.CurrentContext
    ELSE DefaultContextName

NoEnvironment ==
    [DOCKER_HOST |-> "", DOCKER_CONTEXT |-> "", DOCKER_AUTH_CONFIG |-> "",
     DOCKER_CONFIG |-> "", HOME |-> ""]

NoFiles == [p \in ConfigFiles |-> "missing"]

\* The process starts in an environment, with the configuration files as
\* they are on the disk.
SetEnvironment ==
    /\ lpc = "idle"
    /\ env' \in Environments
    /\ \E files \in [ConfigFiles -> FileStates] : disk' = [disk EXCEPT !.files = files]
    /\ lpc' = "ready"
    /\ UNCHANGED <<lcall, lres, clientVars, timeVars>>

CallLoad ==
    /\ lpc = "ready"
    /\ lcall' = Called("Load", "")
    /\ lres' = Load
    /\ lpc' = "done"
    /\ UNCHANGED <<env, disk, clientVars, timeVars>>

CallCurrent ==
    /\ lpc = "ready"
    /\ lcall' = Called("Current", "")
    /\ lres' = Local(Current, Load.cfg, Load.err, Load.opened, <<>>)
    /\ lpc' = "done"
    /\ UNCHANGED <<env, disk, clientVars, timeVars>>

----------------------------------------------------------------------------
(* The context store: directories under a root, each with or without a      *)
(* meta.json.  A directory is named by its path relative to the root.        *)

dockerEndpoint == "docker"

\* The texts of a meta.json.
MetaTexts ==
    {"{}",
     "{name:ctx-a,endpoints:{docker:{Host:tcp://1.2.3.4:2375}}}",
     "{name:ctx-a,endpoints:{docker:{}}}",
     "{name:ctx-a}",
     "{name:ctx-b,endpoints:{docker:{Host:unix:///var/run/docker.sock}}}",
     "{name:ctx-a,endpoints:{docker:5}}",
     "invalid json"}

\* What is at a directory path: no directory, a directory without a
\* meta.json, one whose meta.json cannot be read, or one with a meta.json
\* of this text.
DirStates == {"absent", "nometa", "unreadable"} \cup MetaTexts

\* The directories a store may hold, and the names ReadDir may return, in
\* its order (sorted by name).
StoreDirs == {<<"p">>, <<"p", "n">>, <<"q">>}
EntryNames == <<"n", "p", "q">>

Stores ==
    {[root |-> TRUE, dirs |-> d] :
        d \in {f \in [StoreDirs -> DirStates] : f[<<"p">>] = "absent" => f[<<"p", "n">>] = "absent"}}
    \cup {[root |-> FALSE, dirs |-> [p \in StoreDirs |-> "absent"]]}

NoStore == [root |-> FALSE, dirs |-> [p \in StoreDirs |-> "absent"]]

\* The names a context may be asked by.
ContextNames == {"ctx-a", "ctx-b", "missing"}

IsDir(path) == path \in StoreDirs /\ disk.store.dirs[path] # "absent"

\* isContextDir: os.Stat of the meta.json succeeds.
isContextDir(path) == IsDir(path) /\ disk.store.dirs[path] # "nometa"

\* The loop of listRecursivelyMetadataDirs over the entries of the directory
\* at path, from the i-th on: the context directories, relative to path.
RECURSIVE WalkEntries(_, _)
WalkEntries(path, i) ==
    IF i > Len(EntryNames) THEN <<>>
    ELSE LET name == EntryNames[i]
             sub == Join(path, <<name>>)
         IN (IF IsDir(sub)
             THEN LET subs == WalkEntries(sub, 1) IN
                  (IF isContextDir(sub) THEN << <<name>> >> ELSE <<>>)
                  \o [j \in 1..Len(subs) |-> Join(<<name>>, subs[j])]
             ELSE <<>>)
            \o WalkEntries(path, i + 1)

\* listRecursivelyMetadataDirs(root): os.ReadDir fails on a root that does
\* not exist.
listRecursivelyMetadataDirs ==
    IF ~disk.store.root
    THEN [ok |-> FALSE, dirs |-> <<>>]
    ELSE [ok |-> TRUE, dirs |-> WalkEntries(<<>>, 1)]

\* An endpoint as parseTypedOrMap returns it for the docker endpoint type.
endpointMeta(name, host) == [name |-> name, Host |-> host]

Metadata(name, endpoints) == [Name |-> name, Endpoints |-> endpoints]

\* json.Unmarshal of a meta.json text and parseTypedOrMap of its endpoints.
UnmarshalMetadata(text) ==
    CASE text = "{}" -> [ok |-> TRUE, md |-> Metadata("", {})]
      [] text = "{name:ctx-a,endpoints:{docker:{Host:tcp://1.2.3.4:2375}}}" ->
            [ok |-> TRUE,
             md |-> Metadata("ctx-a", {endpointMeta(dockerEndpoint, "tcp://1.2.3.4:2375")})]
      [] text = "{name:ctx-a,endpoints:{docker:{}}}" ->
            [ok |-> TRUE, md |-> Metadata("ctx-a", {endpointMeta(dockerEndpoint, "")})]
      [] text = "{name:ctx-a}" -> [ok |-> TRUE, md |-> Metadata("ctx-a", {})]
      [] text = "{name:ctx-b,endpoints:{docker:{Host:unix:///var/run/docker.sock}}}" ->
            [ok |-> TRUE,
             md |-> Metadata("ctx-b", {endpointMeta(dockerEndpoint, "unix:///var/run/docker.sock")})]
      [] OTHER -> [ok |-> FALSE, md |-> Metadata("", {})]

\* getByID: the metadata of the context directory id.
getByID(id) ==
    IF disk.store.dirs[id] = "unreadable"
    THEN [ok |-> FALSE, md |-> Metadata("", {}), err |-> Err("read_file", "", "os", 0, "")]
    ELSE IF ~UnmarshalMetadata(disk.store.dirs[id]).ok
         THEN [ok |-> FALSE, md |-> Metadata("", {}), err |-> Err("parsing", "", "json", 0, "")]
         ELSE [ok |-> TRUE, md |-> UnmarshalMetadata(disk.store.dirs[id]).md, err |-> Nil]

\* The loop of list over ctxDirs from the i-th on, found being the entries so
\* far: it returns at the first directory whose metadata cannot be had.
RECURSIVE listFrom_SkipBroken(_, _, _)
listFrom_SkipBroken(ctxDirs, i, found) ==
    IF i > Len(ctxDirs) THEN Local("", Config(""), Nil, <<>>, found)
    ELSE IF ~getByID(ctxDirs[i]).ok
         THEN listFrom_SkipBroken(ctxDirs, i + 1, found)
         ELSE listFrom_SkipBroken(ctxDirs, i + 1, Append(found, getByID(ctxDirs[i]).md))

RECURSIVE listFrom(_, _, _)
listFrom(ctxDirs, i, found) ==
    IF i > Len(ctxDirs) THEN Local("", Config(""), Nil, <<>>, found)
    ELSE IF ~getByID(ctxDirs[i]).ok
         THEN Local("", Config(""),
                    Err("read_metadata", "", getByID(ctxDirs[i]).err.kind, 0, ""), <<>>, <<>>)
         ELSE listFrom(ctxDirs, i + 1, Append(found, getByID(ctxDirs[i]).md))

\* metadataStore.list
list ==
    IF ~listRecursivelyMetadataDirs.ok
    THEN Local("", Config(""), Nil, <<>>, <<>>)
    ELSE listFrom(listRecursivelyMetadataDirs.dirs, 1, <<>>)

ErrDockerHostNotSet == Err("ErrDockerHostNotSet", "", "none", 0, "")

\* The loop of ExtractDockerHost over the metadatas from the i-th on.
RECURSIVE FindDockerHost(_, _, _)
FindDockerHost(metadatas, i, dockerContext) ==
    IF i > Len(metadatas) THEN Local("", Config(""), ErrDockerHostNotSet, <<>>, metadatas)
    ELSE IF /\ metadatas[i].Name = dockerContext
            /\ \E ep \in metadatas[i].Endpoints : ep.name = dockerEndpoint
         THEN Local((CHOOSE ep \in metadatas[i].Endpoints : ep.name = dockerEndpoint).Host,
                    Config(""), Nil, <<>>, metadatas)
         ELSE FindDockerHost(metadatas, i + 1, dockerContext)

ExtractDockerHost(dockerContext) ==
    IF list.err # Nil
    THEN Local("", Config(""), Err("list_metadata", "", list.err.kind, 0, ""), <<>>, <<>>)
    ELSE FindDockerHost(list.list, 1, dockerContext)

\* The context store is as it is on the disk.
SetStore ==
    /\ lpc = "idle"
    /\ \E store \in Stores : disk' = [disk EXCEPT !.store = store]
    /\ lpc' = "stored"
    /\ UNCHANGED <<lcall, env, lres, clientVars, timeVars>>

CallList ==
    /\ lpc = "stored"
    /\ lcall' = Called("list", "")
    /\ lres' = list
    /\ lpc' = "done"
    /\ UNCHANGED <<env, disk, clientVars, timeVars>>

CallExtractDockerHost ==
    /\ lpc = "stored"
    /\ \E name \in ContextNames :
        /\ lcall' = Called("ExtractDockerHost", name)
        /\ lres' = ExtractDockerHost(name)
    /\ lpc' = "done"
    /\ UNCHANGED <<env, disk, clientVars, timeVars>>

----------------------------------------------------------------------------
(* Specifications *)

Init ==
    /\ pc = "idle"
    /\ op = [name |-> "none", models |-> <<>>]
    /\ idx = 1
    /\ cur = ""
    /\ reqs = <<>>
    /\ fm = NoCall
    /\ stream = <<>>
    /\ pos = 1
    /\ emitted = <<>>
    /\ shown = FALSE
    /\ removed = <<>>
    /\ res = NoResult
    /\ tpc = "idle"
    /\ tmodel = ZeroModel
    /\ twire = NoWire
    /\ tback = NoBack
    /\ tagain = NoWire
    /\ lpc = "idle"
    /\ lcall = Called("none", "")
    /\ env = NoEnvironment
    /\ disk = [files |-> NoFiles, store |-> NoStore]
    /\ lres = NoLocal

Next ==
    \/ StartStatus
    \/ StartPull
    \/ StartPush
    \/ StartList
    \/ StartListOpenAI
    \/ StartInspect
    \/ StartInspectOpenAI
    \/ StartChat
    \/ StartTag
    \/ StartRemove
    \/ ResolveSend
    \/ ResolveRecv
    \/ Send
    \/ RecvStream
    \/ ScanProgressLine
    \/ ScanProgressEnd
    \/ ScanChatLine
    \/ ScanChatEnd
    \/ RecvListing
    \/ RecvTag
    \/ RecvRemove
    \/ RecvStatus
    \/ StatusSend
    \/ StatusRecv

\* The client against a server.
Spec == Init /\ [][Next]_vars

NextTime ==
    \/ HoldModel
    \/ Marshal
    \/ ReceiveWire
    \/ DecodeWire
    \/ EncodeAgain

\* The creation-time encoding.
SpecTime == Init /\ [][NextTime]_vars

NextLocal ==
    \/ SetEnvironment
    \/ CallLoad
    \/ CallCurrent
    \/ SetStore
    \/ CallList
    \/ CallExtractDockerHost

\* The local configuration.
SpecLocal == Init /\ [][NextLocal]_vars

\* The client against a server whose response streams are finite and have
\* closed: scanner.Scan() then returns without blocking, with the next line
\* or with false, and the loop of the operation runs on.
SpecLive ==
    /\ Spec
    /\ WF_vars(ScanProgressLine)
    /\ WF_vars(ScanProgressEnd)
    /\ WF_vars(ScanChatLine)
    /\ WF_vars(ScanChatEnd)

----------------------------------------------------------------------------
(* Properties.  The vocabulary below describes streams, identifiers and      *)
(* requests as the specification speaks of them, without using the          *)
(* operators that model the code.                                           *)

\* The line is well-formed: a JSON object once HTML entities are unescaped.
WellFormed(line) == line.wire \in {"json", "escaped"}

IsBlank(line) == line.wire = "blank"

\* The line is a `progress`, `success` or `error` line.
IsLineOfType(line, type) == WellFormed(line) /\ line.type = type

\* Positions of the lines at which a progress stream can end the decoding:
\* those that are neither blank nor `progress` lines.
StopPositions(st) ==
    {i \in 1..Len(st) : ~IsBlank(st[i]) /\ ~IsLineOfType(st[i], "progress")}

Min(S) == CHOOSE x \in S : \A y \in S : x <= y

\* The messages of the `progress` lines among the first n lines, in order.
RECURSIVE ProgressMessages(_, _)
ProgressMessages(st, n) ==
    IF n = 0 THEN <<>>
    ELSE IF IsLineOfType(st[n], "progress")
         THEN Append(ProgressMessages(st, n - 1), st[n].msg)
         ELSE ProgressMessages(st, n - 1)

\* Pull or Push has returned after its response, of status 200, was decoded.
ProgressDone ==
    /\ pc = "done"
    /\ op.name \in ProgressOps
    /\ reqs # <<>>
    /\ reqs[1].status = StatusOK

\* C1: for Pull and Push, when the first line of the response stream that is
\* neither blank nor a `progress` line is a `success` line, the operation
\* returns that line's message with a nil error, and the progress callback has
\* received exactly the messages of the `progress` lines before it, in order,
\* each once.
C1_SuccessStream ==
    (ProgressDone /\ StopPositions(stream) # {}
       /\ IsLineOfType(stream[Min(StopPositions(stream))], "success"))
    => LET k == Min(StopPositions(stream)) IN
       /\ res.val = stream[k].msg
       /\ res.err = Nil
       /\ emitted = ProgressMessages(stream, k - 1)

\* C1 witness: a stream of two `progress` lines, p1 then p2, and a `success`
\* line, decoded to its last line.
C1_Witness ==
    /\ ProgressDone
    /\ Len(stream) = 3
    /\ IsLineOfType(stream[3], "success")
    /\ emitted = <<"p1", "p2">>
    /\ res.val = "ok"
    /\ res.err = Nil

\* C2: for Pull and Push, when the first line of the response stream that is
\* neither blank nor a `progress` line is an `error` line, the operation
\* returns an empty result and a non-nil error whose text holds that line's
\* message.
C2_ErrorStream ==
    (ProgressDone /\ StopPositions(stream) # {}
       /\ IsLineOfType(stream[Min(StopPositions(stream))], "error"))
    => LET k == Min(StopPositions(stream)) IN
       /\ res.val = ""
       /\ res.err # Nil
       /\ Carries(res.err, stream[k].msg)

\* C2 witness: a stream whose `error` line follows a `progress` line.
C2_Witness ==
    /\ ProgressDone
    /\ Len(stream) >= 2
    /\ IsLineOfType(stream[1], "progress")
    /\ IsLineOfType(stream[2], "error")
    /\ res.err.kind = "stream_error"
    /\ res.err.arg = "boom"

DecodeErrorKinds == {"parse", "unknown_type"}

\* C3: for Pull and Push, when the response stream closes before a `success`
\* or `error` line was read (the scanner reaches the end: the stream is empty
\* or holds only blank and `progress` lines), the operation fails with the
\* truncation error, which is not a decode error and names the model; and
\* without a `success` line the operation never succeeds.
C3_TruncatedStream ==
    /\ (ProgressDone /\ StopPositions(stream) = {})
       => /\ res.err.kind = "truncated"
          /\ res.err.kind \notin DecodeErrorKinds
          /\ res.err.arg = op.models[1]
          /\ res.val = ""
    /\ (ProgressDone /\ ~\E i \in 1..Len(stream) : IsLineOfType(stream[i], "success"))
       => res.err # Nil

\* C3 witness: a stream of a blank line and a `progress` line, read to its end.
C3_Witness ==
    /\ ProgressDone
    /\ Len(stream) = 2
    /\ IsBlank(stream[1])
    /\ IsLineOfType(stream[2], "progress")
    /\ res.err.kind = "truncated"

----------------------------------------------------------------------------
\* The requests of the operation that received the given status.
Received(status) == {i \in 1..Len(reqs) : reqs[i].status = status}

\* The last Do call was made for the operation's own request (not for the
\* catalog listing of fullModelID).
OwnRequestLast ==
    /\ reqs # <<>>
    /\ reqs[Len(reqs)].method = Method(op.name)
    /\ reqs[Len(reqs)].path = Path(op.name)

\* The last Do call was made by the listRaw call of fullModelID.
ListingLast ==
    /\ fm.called
    /\ reqs # <<>>
    /\ reqs[Len(reqs)].path = "/models"
    /\ op.name \in ResolvingOps

\* C4: a response of status 503 is never handed to the caller of doRequest
\* (its body is closed at once), doRequest's error is then the sentinel
\* ErrServiceUnavailable, and handleQueryError returns the sentinel itself,
\* not an "error querying <path>" error; a failed Do call yields an
\* "error querying <path>" error that is not the sentinel.
C4_ServiceUnavailable ==
    /\ \A i \in Received(StatusServiceUnavailable) : reqs[i].body = "closed"
    /\ pc \in {"recv", "resolving", "statusrecv"}
       => /\ reqs[Len(reqs)].status \notin {StatusServiceUnavailable, 0}
          /\ reqs[Len(reqs)].body = "open"
    /\ (pc = "done" /\ op.name # "Status" /\ OwnRequestLast)
       => /\ reqs[Len(reqs)].status = StatusServiceUnavailable
             => res.err = ErrServiceUnavailable
          /\ reqs[Len(reqs)].status = 0
             => /\ res.err.kind = "query"
                /\ res.err.arg = Path(op.name)
                /\ ~IsErr(res.err, ErrServiceUnavailable)
    /\ (ListingLast /\ pc # "resolving")
       => /\ reqs[Len(reqs)].status = StatusServiceUnavailable
             => fm.err = ErrServiceUnavailable
          /\ reqs[Len(reqs)].status = 0
             => /\ fm.err.kind = "query"
                /\ ~IsErr(fm.err, ErrServiceUnavailable)

\* C4 witness: Pull has returned after its request was answered 503.
C4_Witness ==
    /\ pc = "done"
    /\ op.name = "Pull"
    /\ reqs[Len(reqs)].status = StatusServiceUnavailable
    /\ res.err = ErrServiceUnavailable

\* C5: for every operation other than Status that returns an error, the
\* error is recognisable as ErrServiceUnavailable exactly when one of the
\* operation's requests, the catalog listing of the resolution included,
\* received status 503.
C5_DistinctionPreserved ==
    (pc = "done" /\ op.name # "Status" /\ res.err # Nil)
    => (IsErr(res.err, ErrServiceUnavailable) <=> Received(StatusServiceUnavailable) # {})

\* The identifier has a "/" anywhere.
HasSlash(model) == \E i \in 1..Len(Chars(model)) : Chars(model)[i] = "/"

\* The identifier has a "/" that is neither among its leading nor among its
\* trailing slashes.
HasInnerSlash(model) ==
    LET cs == Chars(model) IN
    \E i \in 1..Len(cs) :
        /\ cs[i] = "/"
        /\ \E j \in 1..(i - 1) : cs[j] # "/"
        /\ \E j \in (i + 1)..Len(cs) : cs[j] # "/"

\* The number of catalog listing requests fullModelID has issued.
ListingCount == Cardinality({i \in 1..Len(reqs) : reqs[i].path = "/models"})

\* The identifier given at the position the operation is at.
Given == op.models[idx]

\* C6 as stated: in Inspect, InspectOpenAI, Chat, Tag and Remove, an
\* identifier with a "/" is used unchanged in the request and no catalog
\* listing is requested for it.
C6_SlashUnchanged ==
    (op.name \in ResolvingOps /\ op.models # <<>> /\ HasSlash(Given))
    => /\ cur = Given
       /\ ListingCount <= Cardinality({j \in 1..(idx - 1) : ~HasSlash(op.models[j])})
       /\ pc \in {"recv", "scan", "done"} => reqs[Len(reqs)].id = Given

\* C6 amended: the same for an identifier that still has a "/" once its
\* leading and trailing slashes are trimmed; Remove does so for every
\* identifier with a "/".
C6_InnerSlashUnchanged ==
    (/\ op.name \in ResolvingOps
     /\ op.models # <<>>
     /\ HasInnerSlash(Given) \/ (op.name = "Remove" /\ HasSlash(Given)))
    => /\ cur = Given
       /\ ListingCount <= Cardinality({j \in 1..(idx - 1) : ~HasSlash(op.models[j])})
       /\ pc \in {"recv", "scan", "done"} => reqs[Len(reqs)].id = Given

\* C6 witness: Chat has sent its request for ai/smollm2 without any listing.
C6_Witness ==
    /\ op.name = "Chat"
    /\ Given = "ai/smollm2"
    /\ pc = "done"
    /\ Len(reqs) = 1
    /\ reqs[1].path = Path("Chat")
    /\ reqs[1].id = "ai/smollm2"

----------------------------------------------------------------------------
\* The three ways a catalog entry's identifier matches a token: it equals the
\* token, it equals "sha256:" followed by the token, or the token is its 12
\* characters at offsets 7..18.
EntryMatches(mid, token) ==
    LET m == Chars(mid)
        t == Chars(token)
    IN \/ m = t
       \/ m = Sha256Prefix \o t
       \/ /\ Len(m) >= 19
          /\ Len(t) = 12
          /\ \A i \in 1..12 : m[7 + i] = t[i]

\* fullModelID was called and decoded the catalog fm.catalog.
Scanned == fm.called /\ fm.fetched

InCatalog(id) == \E i \in 1..Len(fm.catalog) : fm.catalog[i] = id

\* C7: when some entry of the catalog matches the token, fullModelID returns
\* the identifier of a catalog entry that matches it.
C7_MatchResolves ==
    (Scanned /\ \E i \in 1..Len(fm.catalog) : EntryMatches(fm.catalog[i], fm.token))
    => /\ fm.out = "id"
       /\ InCatalog(fm.id)
       /\ EntryMatches(fm.id, fm.token)

\* C8: when no entry of the catalog matches the token, fullModelID fails with
\* the not-found error carrying the token; and an identifier it returns is
\* always an entry of the catalog it fetched.
C8_NoMatchNotFound ==
    /\ (Scanned /\ ~\E i \in 1..Len(fm.catalog) : EntryMatches(fm.catalog[i], fm.token))
       => /\ fm.out = "err"
          /\ fm.err.kind = "id_not_found"
          /\ fm.err.arg = fm.token
    /\ (fm.called /\ fm.out = "id") => (fm.fetched /\ InCatalog(fm.id))

----------------------------------------------------------------------------
\* The DELETE requests Remove has issued, in order.
Deletes == SelectSeq(reqs, LAMBDA r : r.method = "DELETE")

\* Remove has returned because its DELETE for the identifier at position idx
\* failed: the Do call failed or the status was not 200.
RemoveFailed ==
    /\ pc = "done"
    /\ op.name = "Remove"
    /\ OwnRequestLast
    /\ reqs[Len(reqs)].status # StatusOK

----------------------------------------------------------------------------
\* A Model built by the program was encoded and the wire record decoded.
RoundTripDone == tpc \in {"decoded", "reencoded"} /\ tmodel # ZeroModel

\* C10 as stated: encoding the creation instant of a Model (whole seconds and
\* nanoseconds) with MarshalJSON and decoding it with UnmarshalJSON yields the
\* same instant.
C10_RoundTripSameInstant ==
    RoundTripDone => (tback.ok /\ tback.model.Created = tmodel.Created)

\* C10 amended: the round trip yields the instant cut down to its whole
\* second: the same instant when its nanosecond part is zero, and an earlier
\* one, by that part, otherwise.
C10_RoundTripWholeSeconds ==
    RoundTripDone
    => /\ tback.ok
       /\ twire.created = tmodel.Created.sec
       /\ tback.model.Created = Instant(tmodel.Created.sec, 0)
       /\ (tback.model.Created = tmodel.Created) <=> (tmodel.Created.nsec = 0)

\* C10 witness: a Model created one second before the epoch, with no
\* nanosecond part, after the round trip.
C10_Witness ==
    /\ RoundTripDone
    /\ tmodel.Created = Instant(0 - 1, 0)
    /\ tback.model.Created = tmodel.Created

----------------------------------------------------------------------------
\* A wire record that arrived from the server was decoded.
WireDecoded == tpc \in {"decoded", "reencoded"} /\ tmodel = ZeroModel

\* C11: a wire record whose created is an integer n decodes to a Model whose
\* Created is the instant n seconds after the Unix epoch, with the identifier
\* and the tags carried over, and encoding that Model again gives created = n;
\* a wire record whose created is not an integer makes decoding fail with the
\* "unmarshal model response" error.
C11_WireDecodes ==
    WireDecoded
    => IF twire.createdIsInt
       THEN /\ tback.ok
            /\ tback.err = Nil
            /\ tback.model.Created = Instant(twire.created, 0)
            /\ tback.model.ID = twire.id
            /\ tback.model.Tags = twire.tags
            /\ tpc = "reencoded"
               => (tagain.createdIsInt /\ tagain.created = twire.created)
       ELSE /\ ~tback.ok
            /\ tback.err.kind = "unmarshal_model"
            /\ tpc # "reencoded"

\* C11 witness: a tagged wire record created two seconds after the epoch was
\* decoded and the Model encoded again.
C11_Witness ==
    /\ WireDecoded
    /\ tpc = "reencoded"
    /\ twire.created = MaxSec
    /\ twire.tags # <<>>
    /\ tagain = twire

\* C11 witness of the failing case: a wire record whose created is not an
\* integer was decoded.
C11_WitnessNotInteger ==
    /\ WireDecoded
    /\ ~twire.createdIsInt
    /\ ~tback.ok

----------------------------------------------------------------------------
\* Status returned.
StatusDone == pc = "done" /\ op.name = "Status"

\* The status code of the listing request of Status; 0 when Do failed.
ListingStatus == reqs[1].status

\* C12: Status reports Running = TRUE only if the listing request returned
\* 200, and then with a nil Error; a listing answered 503 gives Running =
\* FALSE with a nil Error; a listing that fails any other way (Do fails, or
\* any other status) gives Running = FALSE with a non-nil Error; so Running =
\* FALSE with a nil Error occurs only in the 503 case.
C12_StatusRunning ==
    StatusDone
    => /\ res.running => (ListingStatus = StatusOK /\ res.err = Nil)
       /\ ListingStatus = StatusOK => res.running
       /\ ListingStatus = StatusServiceUnavailable => (~res.running /\ res.err = Nil)
       /\ ListingStatus \notin {StatusOK, StatusServiceUnavailable}
          => (~res.running /\ res.err # Nil)
       /\ (~res.running /\ res.err = Nil) => ListingStatus = StatusServiceUnavailable

\* C12 witness: Status returned Running = FALSE with a nil Error after its
\* listing was answered 503.
C12_Witness ==
    /\ StatusDone
    /\ ListingStatus = StatusServiceUnavailable
    /\ ~res.running
    /\ res.err = Nil

\* The outcome of the status-text request is a failure of doRequest.
StatusTextFailed == reqs[2].status \in {0, StatusServiceUnavailable}

\* C13: Status issues the status-text request only after the listing returned
\* 200 and at most once; whatever happens to it (503, Do fails, the body
\* cannot be read, any status code) the result is Running = TRUE with a nil
\* Error, and a failure is placeholder text in the Status field.
C13_StatusTextBestEffort ==
    op.name = "Status"
    => /\ Len(reqs) <= 2
       /\ Len(reqs) = 2
          => /\ ListingStatus = StatusOK
             /\ reqs[2].path = "/engines/status"
             /\ pc = "done"
                => /\ res.running
                   /\ res.err = Nil
                   /\ StatusTextFailed => res.val = "error querying status"
                   /\ ~StatusTextFailed
                      => res.val \in BodyTexts \cup {"error reading status body"}

\* C13 witness: Status returned Running = TRUE with the placeholder text after
\* its status-text request was answered 503.
C13_Witness ==
    /\ StatusDone
    /\ Len(reqs) = 2
    /\ reqs[2].status = StatusServiceUnavailable
    /\ res = Result("error querying status", Nil, TRUE)

----------------------------------------------------------------------------
\* The Do calls of the operation that handed back a response.
Responses == {i \in 1..Len(reqs) : reqs[i].status # 0}

\* C14: when a public operation has returned (or was aborted by a panic),
\* whatever the exit path, every response body the underlying client handed
\* back during the operation has been closed.
C14_BodiesClosed ==
    pc \in {"done", "panic"} => \A i \in Responses : reqs[i].body = "closed"

\* C14 witness: Remove returned after two DELETE requests that were both
\* answered, the second one with a failure status.
C14_Witness ==
    /\ pc = "done"
    /\ op.name = "Remove"
    /\ Cardinality({i \in Responses : reqs[i].method = "DELETE"}) = 2
    /\ res.err # Nil
    /\ \A i \in Responses : reqs[i].body = "closed"

----------------------------------------------------------------------------
\* The positions 1..k of the operation's identifiers that go through
\* fullModelID, each with one catalog listing request.
ResolvedUpTo(k) == Cardinality({j \in 1..k : NeedsResolve(op.name, op.models[j])})

\* The request was issued for the operation itself.
IsOwn(rq) == rq.method = Method(op.name) /\ rq.path = Path(op.name)

\* doRequest returned an error for the request: Do failed or the status was 503.
DoRequestFailed(rq) == rq.status \in {0, StatusServiceUnavailable}

\* The number of doRequest calls the operation has made when it is at pc in
\* its course: two for each earlier position of Remove that was resolved and
\* one for each that was not, the listing of the current position, and the
\* operation's own request.
RequestsIssued ==
    CASE op.name = "none" \/ op.models = <<>> -> 0
      [] op.name = "Status" ->
            CASE pc = "send" -> 0
              [] pc \in {"recv", "status"} -> 1
              [] pc = "statusrecv" -> 2
              [] OTHER -> IF ListingStatus = StatusOK THEN 2 ELSE 1
      [] OTHER ->
            ResolvedUpTo(idx - 1) + (idx - 1)
            + (IF NeedsResolve(op.name, Given) /\ pc # "resolve" THEN 1 ELSE 0)
            + (IF pc \in {"recv", "scan"} \/ (pc = "done" /\ OwnRequestLast) THEN 1 ELSE 0)

----------------------------------------------------------------------------
BestEffortOps == {"Chat", "Remove", "Tag"}

\* The operation is past the resolution of the slash-free identifier at its
\* current position.
PastResolution(names) ==
    /\ op.name \in names
    /\ op.models # <<>>
    /\ ~HasSlash(Given)
    /\ pc \notin {"resolve", "resolving"}

\* The operation has issued its own request for the identifier id, last.
OwnRequestFor(id) == OwnRequestLast /\ reqs[Len(reqs)].id = id

\* The error kinds only fullModelID produces.
ResolutionErrorKinds == {"id_not_found", "list_failed", "unmarshal", "invalid_name"}

\* The result comes from the operation's own request, the last Do call.
ResultOfOwnRequest ==
    /\ res.err.kind \notin ResolutionErrorKinds
    /\ IsErr(res.err, ErrServiceUnavailable)
       <=> reqs[Len(reqs)].status = StatusServiceUnavailable
    /\ res.err.kind = "query"
       <=> reqs[Len(reqs)].status = 0
    /\ res.err.kind = "query" => res.err.arg = Path(op.name)
    /\ res.err.kind = "read_body" => reqs[Len(reqs)].status = StatusCreated

\* C16: in Chat, Remove and Tag, when the resolution of a slash-free
\* identifier fails (no matching entry, a listing that is not 200, 503, Do
\* fails, a catalog that cannot be decoded) the operation still issues its
\* request with the identifier as given and its result owes nothing to the
\* failure of the resolution; when the resolution succeeds the request uses
\* the identifier resolved from the catalog.
C16_BestEffortResolution ==
    PastResolution(BestEffortOps)
    => /\ fm.called /\ fm.token = Given
       /\ pc # "panic"
       /\ fm.out = "id"
          => /\ InCatalog(fm.id)
             /\ cur = fm.id
             /\ pc \in {"recv", "scan", "done"} => OwnRequestFor(fm.id)
       /\ fm.out # "id"
          => /\ cur = Given
             /\ pc \in {"recv", "scan", "done"} => OwnRequestFor(Given)
             /\ pc = "done" => ResultOfOwnRequest

----------------------------------------------------------------------------
HardFailOps == {"Inspect", "InspectOpenAI"}

\* C17: in Inspect (for a non-empty identifier) and InspectOpenAI, when the
\* resolution of a slash-free identifier fails the operation returns an error
\* and never issues the GET for the identifier; when it succeeds, exactly one
\* GET for the identifier is issued, after the catalog listing, with the
\* identifier resolved from the catalog.
C17_HardFailResolution ==
    (PastResolution(HardFailOps) /\ (op.name = "Inspect" => Given # ""))
    => /\ fm.called /\ fm.token = Given
       /\ pc # "panic"
       /\ fm.out # "id"
          => /\ pc = "done"
             /\ res.err # Nil
             /\ Len(reqs) = 1
             /\ ~IsOwn(reqs[1])
       /\ fm.out = "id"
          => /\ InCatalog(fm.id)
             /\ cur = fm.id
             /\ pc = "send" => Len(reqs) = 1
             /\ pc \in {"recv", "done"}
                => /\ Len(reqs) = 2
                   /\ reqs[1].path = "/models"
                   /\ OwnRequestFor(fm.id)

----------------------------------------------------------------------------
\* Tag returned after its request was handed a response.
TagAnswered ==
    /\ pc = "done"
    /\ op.name = "Tag"
    /\ OwnRequestLast
    /\ ~DoRequestFailed(reqs[Len(reqs)])

\* What Tag returns for a status other than 201: nothing, and an error with
\* the status and the body read.
TagFailure ==
    LET rq == reqs[Len(reqs)] IN
    /\ res.val = ""
    /\ res.err.kind = "tag_failed"
    /\ res.err.status = rq.status
    /\ res.err.text = rq.read.text

\* C18 as stated: Tag succeeds exactly when the response status is 201: on 201
\* it returns the response body with a nil error; on any other status handed
\* to it, 200 included, it returns nothing and an error with the status and
\* the body.
C18_TagSucceedsIff201 ==
    TagAnswered
    => LET rq == reqs[Len(reqs)] IN
       /\ res.err = Nil <=> rq.status = StatusCreated
       /\ rq.status = StatusCreated => res.val = rq.read.text
       /\ rq.status # StatusCreated => TagFailure

\* C18 amended: Tag succeeds exactly when the response status is 201 and the
\* body could be read: it then returns the body with a nil error; on 201 with
\* a body that cannot be read it returns nothing and a read error; on any
\* other status handed to it, 200 included, it returns nothing and an error
\* with the status and the body.
C18_TagSucceedsIff201Read ==
    TagAnswered
    => LET rq == reqs[Len(reqs)] IN
       /\ rq.read.done
       /\ res.err = Nil <=> (rq.status = StatusCreated /\ rq.read.ok)
       /\ (rq.status = StatusCreated /\ rq.read.ok) => res.val = rq.read.text
       /\ (rq.status = StatusCreated /\ ~rq.read.ok)
          => (res.val = "" /\ res.err.kind = "read_body")
       /\ rq.status # StatusCreated => TagFailure

\* C18 witness: Tag answered 200 returned the error with the status and the
\* body.
C18_Witness ==
    /\ TagAnswered
    /\ reqs[Len(reqs)].status = StatusOK
    /\ res.err = Err("tag_failed", "", "none", StatusOK, "body")

----------------------------------------------------------------------------
\* List, ListOpenAI, Inspect or InspectOpenAI returned after the request of
\* its listRaw call was handed a response.
ListingAnswered ==
    /\ pc = "done"
    /\ op.name \in ListingOps
    /\ OwnRequestLast
    /\ ~DoRequestFailed(reqs[Len(reqs)])

\* C19: listRaw, as List, ListOpenAI, Inspect and InspectOpenAI call it,
\* turns a 404 into an error that is ErrNotFound and carries the identifier
\* exactly when the identifier is not empty; a 404 with an empty identifier
\* and every other status that is not 200 give a "failed to list models"
\* error that is not ErrNotFound; the body is read and returned only for 200.
C19_ListRawStatuses ==
    ListingAnswered
    => LET rq == reqs[Len(reqs)] IN
       /\ IsErr(res.err, ErrNotFound) <=> (rq.status = StatusNotFound /\ rq.id # "")
       /\ IsErr(res.err, ErrNotFound) => res.err.arg = rq.id
       /\ (rq.status # StatusOK /\ ~(rq.status = StatusNotFound /\ rq.id # ""))
          => /\ res.err.kind = "list_failed"
             /\ res.err.status = rq.status
       /\ rq.read.done <=> rq.status = StatusOK
       /\ res.err = Nil => (rq.status = StatusOK /\ rq.read.ok /\ res.val = rq.read.text)
       /\ rq.status # StatusOK => res.val = ""

\* C19 witness: Inspect of an empty identifier answered 404 returned the
\* "failed to list models" error.
C19_Witness ==
    /\ ListingAnswered
    /\ op.name = "Inspect"
    /\ reqs[Len(reqs)].id = ""
    /\ reqs[Len(reqs)].status = StatusNotFound
    /\ res.err.kind = "list_failed"

\* C19 witness of the other case: Inspect of a resolved identifier answered
\* 404 returned ErrNotFound with the identifier.
C19_WitnessNotFound ==
    /\ ListingAnswered
    /\ op.name = "Inspect"
    /\ fm.out = "id"
    /\ IsErr(res.err, ErrNotFound)
    /\ res.err.arg = fm.id

----------------------------------------------------------------------------
\* Chat is scanning, or has scanned, the stream of a 200 response.
ChatScanned ==
    /\ op.name = "Chat"
    /\ pc \in {"scan", "done"}
    /\ OwnRequestLast
    /\ reqs[Len(reqs)].status = StatusOK

\* The position of the first line of the stream whose wire form is in wires,
\* or the position past the end when there is none.
FirstOf(wires) ==
    Min({i \in 1..Len(stream) : stream[i].wire \in wires} \cup {Len(stream) + 1})

\* The non-empty delta contents of the first choice of the "data: " lines
\* before position n, in stream order.
Deltas(n) ==
    LET ls == SelectSeq(SubSeq(stream, 1, n - 1),
                        LAMBDA l : l.wire = "data" /\ l.type = "choice" /\ l.msg # "")
    IN [i \in 1..Len(ls) |-> ls[i].msg]

\* C20 as stated: over any stream of a 200 response, the fragments Chat emits
\* are, in stream order, the non-empty delta contents of the first choice of
\* the "data: " lines before the first "data: [DONE]" line; blank lines and
\* lines without the prefix emit nothing and do not end the stream, and no
\* line after the first [DONE] is decoded or emitted.
C20_ChatEmitsUpToDone ==
    ChatScanned
    => /\ pos <= Min({FirstOf({"done"}) + 1, Len(stream) + 1})
       /\ pc = "done" => emitted = Deltas(FirstOf({"done"}))

\* C20 amended: the fragments are those of the "data: " lines before the
\* first line that is "data: [DONE]" or a "data: " line that cannot be
\* decoded; Chat stops at that line, or at the end of the stream, and nowhere
\* else.
C20_ChatEmitsUpToStop ==
    ChatScanned
    => LET stop == FirstOf({"done", "baddata"}) IN
       /\ pos <= Min({stop + 1, Len(stream) + 1})
       /\ emitted = Deltas(pos)
       /\ pc = "done"
          => /\ pos = Min({stop + 1, Len(stream) + 1})
             /\ emitted = Deltas(stop)

\* C20 witness: Chat returned after a stream with a fragment, [DONE] and
\* another fragment, having emitted the first fragment only.
C20_Witness ==
    /\ ChatScanned
    /\ pc = "done"
    /\ Len(stream) = MaxLines
    /\ stream[2].wire = "done"
    /\ stream[3] = Line("data", "choice", "lo")
    /\ emitted = <<"Hel">>

----------------------------------------------------------------------------
\* Chat returned after the stream of a 200 response closed: the body was read
\* to its end, no line was "data: [DONE]" and every "data: " line decoded.
ChatClosedWithoutDone ==
    /\ ChatScanned
    /\ pc = "done"
    /\ FirstOf({"done", "baddata"}) = Len(stream) + 1
    /\ reqs[Len(reqs)].read.done
    /\ reqs[Len(reqs)].read.ok

\* C21: when the stream of a 200 response closes without a [DONE] line and
\* all its "data: " lines decode, Chat returns nil after emitting every delta;
\* the missing end marker is not an error, unlike in Pull and Push.
C21_ChatCloseIsSuccess ==
    ChatClosedWithoutDone
    => /\ res.err = Nil
       /\ emitted = Deltas(Len(stream) + 1)

\* C21 witness: Chat returned nil after the stream "Hel", "lo" and a line
\* without the prefix closed.
C21_Witness ==
    /\ ChatClosedWithoutDone
    /\ emitted = <<"Hel", "lo">>
    /\ Len(stream) = MaxLines
    /\ res.err = Nil

----------------------------------------------------------------------------
\* The first line of the stream that is "data: [DONE]" or an undecodable
\* "data: " line is an undecodable one.
UndecodableBeforeDone ==
    /\ FirstOf({"done", "baddata"}) <= Len(stream)
    /\ stream[FirstOf({"done", "baddata"})].wire = "baddata"

\* C22: the first "data: " line before [DONE] that cannot be decoded makes
\* Chat return an error at once: nothing is emitted for that line or for a
\* later one, and the fragments of the earlier lines stay emitted.
C22_ChatDecodeErrorAborts ==
    (ChatScanned /\ UndecodableBeforeDone)
    => LET bad == FirstOf({"done", "baddata"}) IN
       /\ pos <= bad + 1
       /\ emitted = Deltas(Min({pos, bad}))
       /\ pos = bad + 1 <=> pc = "done"
       /\ pc = "done"
          => /\ res.err.kind = "parse_stream"
             /\ emitted = Deltas(bad)

\* C22 witness: Chat returned the parse error at the second line of the stream
\* "Hel", undecodable, "lo", with "Hel" emitted.
C22_Witness ==
    /\ ChatScanned
    /\ pc = "done"
    /\ Len(stream) = MaxLines
    /\ stream[2].wire = "baddata"
    /\ stream[3] = Line("data", "choice", "lo")
    /\ emitted = <<"Hel">>
    /\ res.err.kind = "parse_stream"

----------------------------------------------------------------------------
\* The request is the catalog listing of a resolution.
IsListing(rq) == rq.method = "GET" /\ rq.path = "/models" /\ ~IsOwn(rq)

\* Remove was called with identifiers that are all slash-free.
RemoveSlashFree ==
    /\ op.name = "Remove"
    /\ op.models # <<>>
    /\ \A j \in 1..Len(op.models) : ~HasSlash(op.models[j])

\* C23: a resolution never reuses a catalog: each one issues exactly one
\* catalog listing request of its own, and Remove over slash-free identifiers
\* issues its requests in the order list(1), delete(1), list(2), delete(2),
\* ..., so that identifier i is resolved against the catalog the server
\* reports after the DELETE of identifier i-1 was answered.
C23_FreshCatalogPerResolution ==
    /\ (op.name \in ResolvingOps \ {"Remove"} /\ fm.called)
       => Cardinality({i \in 1..Len(reqs) : IsListing(reqs[i])}) = 1
    /\ RemoveSlashFree
       => /\ \A i \in 1..Len(reqs) :
               IF i % 2 = 1
               THEN /\ IsListing(reqs[i])
                    /\ i > 1 => reqs[i - 1].status = StatusOK
               ELSE /\ IsOwn(reqs[i])
                    /\ reqs[i].id \in {op.models[i \div 2]} \cup CatalogIDs
          /\ pc \in {"send", "recv", "done", "panic"}
             => /\ fm.called
                /\ fm.token = Given
                /\ Len(reqs) >= 2 * idx - 1
                /\ fm.fetched => reqs[2 * idx - 1].status = StatusOK

\* C23 witness: Remove of the same short identifier twice returned after
\* list, delete, list, delete; the first catalog resolved the identifier and
\* the second, listed after the first DELETE, no longer did.
C23_Witness ==
    /\ RemoveSlashFree
    /\ pc = "done"
    /\ Len(reqs) = 4
    /\ op.models[1] = op.models[2]
    /\ reqs[2].id = "sha256:abc123456789def"
    /\ reqs[4].id = op.models[2]
    /\ fm.fetched
    /\ fm.out = "err"

----------------------------------------------------------------------------
\* Current returned.
CurrentDone == lpc = "done" /\ lcall.fn = "Current"

\* The current context of the configuration that was loaded, empty when
\* none was.
ConfiguredContext == IF lres.err = Nil THEN lres.cfg.CurrentContext ELSE ""

\* C24: Current returns the default context name whenever DOCKER_HOST is set
\* to a non-empty value; otherwise the value of DOCKER_CONTEXT whenever that
\* is non-empty, overriding the configuration file; otherwise the current
\* context of the configuration file when it is non-empty, and the default
\* context name when it is not.
C24_CurrentPrecedence ==
    CurrentDone
    => lres.val = (IF env.DOCKER_HOST # "" THEN DefaultContextName
                   ELSE IF env.DOCKER_CONTEXT # "" THEN env.DOCKER_CONTEXT
                   ELSE IF ConfiguredContext # "" THEN ConfiguredContext
                   ELSE DefaultContextName)

\* The part of C24 that holds: the precedence when the configuration loads.
CurrentPrecedenceWhenLoaded == (CurrentDone /\ lres.err = Nil) => C24_CurrentPrecedence

----------------------------------------------------------------------------
\* Load returned.
LoadDone == lpc = "done" /\ lcall.fn = "Load"

\* The text is not a JSON object.
Malformed(text) == text = "{not json"

\* The current context a well-formed configuration text names.
ContextNamed(text) ==
    CASE text = "{currentContext:ctx-a}" -> "ctx-a"
      [] text = "{currentContext:ctx-b}" -> "ctx-b"
      [] OTHER -> ""

\* The configuration file under the DOCKER_CONFIG directory /cfg, and the
\* default one under the home directory /home/u.
DirConfigFile == <<"cfg", "config.json">>
HomeConfigFile == <<"home", "u", ".docker", "config.json">>

\* Load's result is the configuration decoded from text, or an error when
\* the text is malformed.
LoadedFromText(text) ==
    IF Malformed(text)
    THEN lres.err # Nil
    ELSE lres.err = Nil /\ lres.cfg.CurrentContext = ContextNamed(text)

\* Load opened the file f and nothing else, and its result is what f holds.
LoadedFromFile(f) ==
    /\ lres.opened = <<f>>
    /\ IF disk.files[f] = "missing" THEN lres.err # Nil ELSE LoadedFromText(disk.files[f])

\* C27: Load takes its source in a fixed order: a non-empty DOCKER_AUTH_CONFIG
\* is decoded and no file is read, a malformed value being an error without a
\* fall-back to a file; otherwise the file under the DOCKER_CONFIG directory
\* when that variable is set; otherwise the default ~/.docker/config.json.
C27_LoadSourceOrder ==
    LoadDone
    => IF env.DOCKER_AUTH_CONFIG # ""
       THEN /\ lres.opened = <<>>
            /\ LoadedFromText(env.DOCKER_AUTH_CONFIG)
            /\ Malformed(env.DOCKER_AUTH_CONFIG) => lres.err.kind = "unmarshal_auth_config"
       ELSE IF env.DOCKER_CONFIG # ""
            THEN LoadedFromFile(DirConfigFile)
            ELSE IF env.HOME # ""
                 THEN LoadedFromFile(HomeConfigFile)
                 ELSE lres.opened = <<>> /\ lres.err # Nil

\* C27 witness: Load returned the configuration of DOCKER_AUTH_CONFIG without
\* opening the file under DOCKER_CONFIG, which names another context.
C27_Witness ==
    /\ LoadDone
    /\ env.DOCKER_AUTH_CONFIG = "{currentContext:ctx-a}"
    /\ env.DOCKER_CONFIG = "/cfg"
    /\ disk.files[DirConfigFile] = "{currentContext:ctx-b}"
    /\ lres.cfg = Config("ctx-a")
    /\ lres.opened = <<>>

\* C27 witness of the error case: a malformed DOCKER_AUTH_CONFIG made Load
\* fail although the file under DOCKER_CONFIG is well-formed.
C27_WitnessMalformed ==
    /\ LoadDone
    /\ Malformed(env.DOCKER_AUTH_CONFIG)
    /\ env.DOCKER_CONFIG = "/cfg"
    /\ disk.files[DirConfigFile] = "{}"
    /\ lres.err # Nil

----------------------------------------------------------------------------
\* The directories of the store that hold a meta.json.
MetaDirs == {d \in StoreDirs : disk.store.dirs[d] \notin {"absent", "nometa"}}

\* The meta.json can be read and parsed.
Parsable(state) ==
    state \in {"{}",
               "{name:ctx-a,endpoints:{docker:{Host:tcp://1.2.3.4:2375}}}",
               "{name:ctx-a,endpoints:{docker:{}}}",
               "{name:ctx-a}",
               "{name:ctx-b,endpoints:{docker:{Host:unix:///var/run/docker.sock}}}"}

BrokenDirs == {d \in MetaDirs : ~Parsable(disk.store.dirs[d])}

\* The name of the context a meta.json text describes.
NameIn(text) ==
    CASE text \in {"{name:ctx-a,endpoints:{docker:{Host:tcp://1.2.3.4:2375}}}",
                   "{name:ctx-a,endpoints:{docker:{}}}", "{name:ctx-a}"} -> "ctx-a"
      [] text = "{name:ctx-b,endpoints:{docker:{Host:unix:///var/run/docker.sock}}}" -> "ctx-b"
      [] OTHER -> ""

\* The host of the docker endpoint a meta.json text describes, empty when it
\* sets none.
HostIn(text) ==
    CASE text = "{name:ctx-a,endpoints:{docker:{Host:tcp://1.2.3.4:2375}}}" -> "tcp://1.2.3.4:2375"
      [] text = "{name:ctx-b,endpoints:{docker:{Host:unix:///var/run/docker.sock}}}" ->
            "unix:///var/run/docker.sock"
      [] OTHER -> ""

\* The directories of the stored contexts of this name.
Named(name) == {d \in MetaDirs : NameIn(disk.store.dirs[d]) = name}

\* ExtractDockerHost returned for a store whose meta.json files are all sound.
ExtractDone == lpc = "done" /\ lcall.fn = "ExtractDockerHost" /\ BrokenDirs = {}

\* C25: ExtractDockerHost(name, root) returns the host of the docker endpoint
\* of the stored context of that name, at whatever depth under root its
\* directory lies; it fails with ErrDockerHostNotSet when no stored context
\* has the name, and when the context of that name has no host set for its
\* docker endpoint.
C25_ExtractDockerHost ==
    ExtractDone
    => /\ Named(lcall.arg) = {} => IsErr(lres.err, ErrDockerHostNotSet)
       /\ \A d \in Named(lcall.arg) :
            Named(lcall.arg) = {d}
            => IF HostIn(disk.store.dirs[d]) # ""
               THEN lres.err = Nil /\ lres.val = HostIn(disk.store.dirs[d])
               ELSE IsErr(lres.err, ErrDockerHostNotSet)

\* The part of C25 that holds: stores without a docker endpoint that has no
\* host.
ExtractDockerHostWithHosts ==
    (\A d \in StoreDirs : disk.store.dirs[d] # "{name:ctx-a,endpoints:{docker:{}}}")
    => C25_ExtractDockerHost

----------------------------------------------------------------------------
\* The endpoints a meta.json text describes.
EndpointsIn(text) ==
    IF text \in {"{name:ctx-a,endpoints:{docker:{Host:tcp://1.2.3.4:2375}}}",
                 "{name:ctx-a,endpoints:{docker:{}}}",
                 "{name:ctx-b,endpoints:{docker:{Host:unix:///var/run/docker.sock}}}"}
    THEN {[name |-> "docker", Host |-> HostIn(text)]}
    ELSE {}

\* The listing of the stored contexts returned.
ListDone == lpc = "done" /\ lcall.fn = "list"

\* The entries are those of the directories with a meta.json, one each.
OneEntryPerMetaDir(entries) ==
    \E f \in [1..Len(entries) -> MetaDirs] :
        /\ \A i, j \in 1..Len(entries) : f[i] = f[j] => i = j
        /\ \A d \in MetaDirs : \E i \in 1..Len(entries) : f[i] = d
        /\ \A i \in 1..Len(entries) :
            /\ entries[i].Name = NameIn(disk.store.dirs[f[i]])
            /\ entries[i].Endpoints = EndpointsIn(disk.store.dirs[f[i]])

\* C26: listing the stored contexts is all-or-nothing. A root directory that
\* does not exist gives an empty list and no error; otherwise the list has
\* exactly one entry per directory holding a meta.json, nested ones included
\* and "{}" giving an entry with empty name and no endpoints; and when any
\* meta.json cannot be read or parsed the listing fails and returns no entry,
\* whatever the other contexts are.
C26_ListAllOrNothing ==
    ListDone
    => /\ ~disk.store.root => lres.err = Nil /\ lres.list = <<>>
       /\ disk.store.root /\ BrokenDirs # {} => lres.err # Nil /\ lres.list = <<>>
       /\ disk.store.root /\ BrokenDirs = {}
          => lres.err = Nil /\ OneEntryPerMetaDir(lres.list)

\* A listing of three contexts, one nested and one of "{}".
C26_Witness ==
    /\ ListDone /\ lres.err = Nil /\ Len(lres.list) = 3
    /\ \E d \in MetaDirs : disk.store.dirs[d] = "{}"
    /\ \E i \in 1..Len(lres.list) : lres.list[i].Name = NameIn(disk.store.dirs[<<"p", "n">>])

\* A listing that failed over one broken meta.json beside two sound ones.
C26_WitnessBroken ==
    /\ ListDone /\ lres.err # Nil /\ lres.list = <<>>
    /\ Cardinality(BrokenDirs) = 1 /\ Cardinality(MetaDirs) = 3

\* A listing of a root directory that does not exist.
C26_WitnessNoRoot == ListDone /\ ~disk.store.root /\ lres.err = Nil

----------------------------------------------------------------------------
\* The line is a `success` or an `error` line.
IsTerminalLine(line) == IsLineOfType(line, "success") \/ IsLineOfType(line, "error")

\* Pull or Push is reading its response stream, or has returned; the lines
\* read are those before pos.
ProgressReading == op.name \in ProgressOps /\ pc \in {"scan", "done"}

\* C28: in Pull and Push the first `success` or `error` line read is
\* terminal: once it is read the operation has returned, no line after it is
\* read or decoded and the progress callback has received the messages of
\* the `progress` lines before it and nothing more, whatever lines follow it
\* in the stream; and Pull and Push return a nil error only if a `success`
\* line was read.
C28_TerminalLine ==
    ProgressReading
    => /\ \A k \in 1..(pos - 1) :
            IsTerminalLine(stream[k])
            => /\ pos = k + 1
               /\ pc = "done"
               /\ emitted = ProgressMessages(stream, k - 1)
       /\ (pc = "done" /\ res.err = Nil)
          => \E k \in 1..(pos - 1) : IsLineOfType(stream[k], "success")

\* C28 witness: an `error` line after a `progress` line ended the operation
\* although a `progress` line follows it.
C28_Witness ==
    /\ ProgressDone
    /\ Len(stream) = 3
    /\ pos = 3
    /\ IsLineOfType(stream[1], "progress")
    /\ IsLineOfType(stream[2], "error")
    /\ IsLineOfType(stream[3], "progress")
    /\ emitted = <<stream[1].msg>>
    /\ res.err # Nil

\* C28 witness: a `success` line ended the operation although an `error`
\* line follows it.
C28_WitnessSuccess ==
    /\ ProgressDone
    /\ Len(stream) >= 2
    /\ pos = 2
    /\ IsLineOfType(stream[1], "success")
    /\ IsLineOfType(stream[2], "error")
    /\ res.err = Nil

----------------------------------------------------------------------------
\* The stream with its blank lines deleted.
NonBlank(st) == SelectSeq(st, LAMBDA line : ~IsBlank(line))

\* C29: blank lines are neutral in Pull and Push.  What the operation
\* returned over its response stream (result, progress flag and error) and
\* what the progress callback received are what the same operation returns and hands over on
\* the stream with every blank line deleted; so two streams that differ only
\* in blank lines give the same outcome, and a blank line never ends the
\* stream.
C29_BlankLinesNeutral ==
    ProgressDone
    => LET plain == ScanProgress(NonBlank(stream), cur) IN
       /\ res.val = plain.val
       /\ res.err = plain.err
       /\ shown = plain.shown
       /\ emitted = plain.emitted

\* C29 witness: blank lines before and between a `progress` and a `success`
\* line, all read.
C29_Witness ==
    /\ ProgressDone
    /\ Len(stream) = 3
    /\ pos = 4
    /\ IsBlank(stream[2])
    /\ Len(NonBlank(stream)) = 2
    /\ emitted = <<"p1">>
    /\ res.val = "ok"
    /\ res.err = Nil

----------------------------------------------------------------------------
KnownTypes == {"progress", "success", "error"}

\* The line decodes and its type is none of the three known ones.
IsUnknownTypeLine(line) == WellFormed(line) /\ line.type \notin KnownTypes

\* C30: in Pull and Push a line that decodes and whose `type` is none of
\* `progress`, `success`, `error` (a missing or empty type included) stops the
\* operation at that line with the "unknown message type" error carrying the
\* value seen; the line is not skipped and is not handed to the progress
\* callback.
C30_UnknownTypeStops ==
    ProgressReading
    => \A k \in 1..(pos - 1) :
          IsUnknownTypeLine(stream[k])
          => /\ pos = k + 1
             /\ pc = "done"
             /\ res.val = ""
             /\ res.err.kind = "unknown_type"
             /\ res.err.arg = stream[k].type
             /\ emitted = ProgressMessages(stream, k - 1)

\* C30 witness: a line of type `status` after a `progress` line, with a
\* `success` line behind it.
C30_Witness ==
    /\ ProgressDone
    /\ Len(stream) = 3
    /\ pos = 3
    /\ IsLineOfType(stream[1], "progress")
    /\ IsUnknownTypeLine(stream[2]) /\ stream[2].type = "status"
    /\ IsLineOfType(stream[3], "success")
    /\ res.err.kind = "unknown_type"
    /\ res.err.arg = "status"
    /\ emitted = <<stream[1].msg>>

\* C30 witness: a line with an empty type.
C30_WitnessEmptyType ==
    /\ ProgressDone
    /\ pos = 2
    /\ IsUnknownTypeLine(stream[1]) /\ stream[1].type = ""
    /\ res.err.kind = "unknown_type"
    /\ res.err.arg = ""

----------------------------------------------------------------------------
\* The line is not blank and is not a JSON object once its HTML entities are
\* unescaped.
IsUndecodableLine(line) == ~IsBlank(line) /\ ~WellFormed(line)

\* C31: in Pull and Push a non-blank line that fails to decode, after the
\* unescaping of HTML entities, makes the operation fail at that line: the
\* operation has returned a decode error and an empty result, the progress
\* callback has received the messages of the `progress` lines before the line
\* and nothing for it or for a later line, and no line after it is read, so a
\* later `success` line does not make the operation succeed.
C31_UndecodableLineFails ==
    ProgressReading
    => \A k \in 1..(pos - 1) :
          IsUndecodableLine(stream[k])
          => /\ pos = k + 1
             /\ pc = "done"
             /\ res.val = ""
             /\ res.err.kind = "parse"
             /\ emitted = ProgressMessages(stream, k - 1)

\* C31 witness: a line that is JSON only before unescaping, after a
\* `progress` line and before a `success` line.
C31_Witness ==
    /\ ProgressDone
    /\ Len(stream) = 3
    /\ pos = 3
    /\ IsLineOfType(stream[1], "progress")
    /\ stream[2].wire = "entity"
    /\ IsLineOfType(stream[3], "success")
    /\ emitted = <<stream[1].msg>>
    /\ res.err.kind = "parse"

\* C31 witness: a line that is no JSON at all, first in the stream.
C31_WitnessGarbage ==
    /\ ProgressDone
    /\ pos = 2
    /\ stream[1].wire = "garbage"
    /\ emitted = <<>>
    /\ res.err.kind = "parse"

----------------------------------------------------------------------------
\* Pull or Push has returned without a response of status 200: its request
\* failed (no response, or a 503 that doRequest turns into an error), or was
\* answered with another status.
ProgressRefused ==
    /\ pc = "done"
    /\ op.name \in ProgressOps
    /\ reqs # <<>>
    /\ reqs[1].status # StatusOK

\* C32: when the response status of Pull or Push is neither 200 nor 503 the
\* operation fails with an error carrying the status and the body as read;
\* when the request itself fails the operation fails as well; in both cases
\* the stream decoder is never started, the progress callback is never
\* invoked and the progress flag is false.
C32_NonOKStatusFails ==
    ProgressRefused
    => /\ res.val = ""
       /\ res.err # Nil
       /\ reqs[1].status \notin {0, StatusServiceUnavailable}
          => /\ res.err.status = reqs[1].status
             /\ reqs[1].read.done
             /\ res.err.text = reqs[1].read.text
       /\ Len(reqs) = 1
       /\ stream = <<>>
       /\ pos = 1
       /\ emitted = <<>>
       /\ ~shown

\* C32 witness: Pull answered 404 with a body.
C32_Witness ==
    /\ ProgressRefused
    /\ op.name = "Pull"
    /\ reqs[1].status = StatusNotFound
    /\ res.err.status = StatusNotFound
    /\ res.err.text = "body"

\* C32 witness: the request of Push failed.
C32_WitnessRequestFailed ==
    /\ ProgressRefused
    /\ op.name = "Push"
    /\ reqs[1].status = 0
    /\ res.err # Nil

----------------------------------------------------------------------------
\* The positions of the catalog entries that match the token.
MatchPositions == {i \in 1..Len(fm.catalog) : EntryMatches(fm.catalog[i], fm.token)}

\* C33: fullModelID returns the identifier of the lowest-index catalog entry
\* that matches the token in any of the three ways; when several entries
\* match, the earliest in catalog order is returned and no error is reported.
C33_FirstMatchWins ==
    (Scanned /\ MatchPositions # {})
    => /\ fm.out = "id"
       /\ fm.id = fm.catalog[Min(MatchPositions)]
       /\ fm.err = Nil

\* The identifier has the 19 characters the short-prefix comparison reads.
HasShortPrefix(mid) == Len(Chars(mid)) >= 19

\* The part of C33 that holds: no identifier without a short prefix lies at
\* or before the first match.
FirstMatchWinsWithShortPrefixes ==
    (/\ Scanned
     /\ MatchPositions # {}
     /\ \A i \in 1..Min(MatchPositions) : HasShortPrefix(fm.catalog[i]))
    => /\ fm.out = "id"
       /\ fm.id = fm.catalog[Min(MatchPositions)]
       /\ fm.err = Nil

\* Two entries share the short prefix asked for and the first is returned.
SeveralMatchesReached ==
    /\ Scanned
    /\ Cardinality(MatchPositions) = 2
    /\ fm.catalog[1] # fm.catalog[2]
    /\ fm.out = "id"
    /\ fm.id = fm.catalog[1]

----------------------------------------------------------------------------
\* The operation is past the resolution of the identifier at position idx:
\* its own request for it is about to be issued, or was issued.
PastResolving == op.name \in ResolvingOps /\ op.models # <<>> /\ pc \in {"send", "recv"}

\* The identifiers given up to position k that have no "/" left once their
\* surrounding slashes are trimmed.
NotCanonicalUpTo(k) == {j \in 1..k : ~HasInnerSlash(op.models[j])}

\* C34: Inspect, InspectOpenAI, Chat, Tag and Remove decide with the same
\* predicate whether an identifier looks canonical: each skips the resolution,
\* and so the catalog listing, exactly for the identifiers that contain a "/"
\* once their surrounding slashes are trimmed.
C34_SamePredicate ==
    PastResolving => ListingCount = Cardinality(NotCanonicalUpTo(idx))

\* The part of C34 that holds: InspectOpenAI, Chat and Tag, and Inspect for a
\* non-empty identifier.
SamePredicateInFour ==
    (/\ PastResolving
     /\ op.name # "Remove"
     /\ ~(op.name = "Inspect" /\ Given = ""))
    => ListingCount = Cardinality(NotCanonicalUpTo(idx))

----------------------------------------------------------------------------
\* The responses of the operation whose body is open.
OpenBodies == {i \in 1..Len(reqs) : reqs[i].body = "open"}

\* C35: at every point of a public operation at most one response body
\* obtained by the operation is open: a response is released before the next
\* request is issued.
C35_OneBodyOpen == Cardinality(OpenBodies) <= 1

\* The part of C35 that holds: every operation but Status and Remove; the
\* catalog listing of fullModelID is released before the operation's own
\* request.
OneBodyOpenOutsideStatusRemove ==
    op.name \notin {"Status", "Remove"} => Cardinality(OpenBodies) <= 1

\* A listing was released before the identifier-scoped request was answered.
ListingReleasedReached ==
    /\ op.name = "Tag"
    /\ Len(reqs) = 2
    /\ reqs[1].body = "closed"
    /\ reqs[2].body = "open"

----------------------------------------------------------------------------
\* Inspect or InspectOpenAI returned after the resolution found no entry
\* matching the identifier given.
InspectUnresolved ==
    /\ pc = "done"
    /\ op.name \in {"Inspect", "InspectOpenAI"}
    /\ Scanned
    /\ MatchPositions = {}
    /\ fm.out = "err"

\* C36: when the resolution fails inside Inspect or InspectOpenAI because no
\* catalog entry matches the identifier given, the error returned carries
\* that identifier.
C36_InspectErrorCarriesToken ==
    InspectUnresolved => res.err # Nil /\ Carries(res.err, op.models[1])

\* The part of C36 that holds: Inspect.
InspectErrorCarriesTokenInInspect ==
    (InspectUnresolved /\ op.name = "Inspect")
    => res.err # Nil /\ Carries(res.err, op.models[1])

----------------------------------------------------------------------------
\* C37: fullModelID completes with an identifier or an error for every
\* catalog it decodes, whatever the length of the identifiers in it; an
\* identifier of fewer than 19 characters does not abort the scan or the
\* operation.
C37_ShortIDNoAbort ==
    /\ Scanned => fm.out \in {"id", "err"}
    /\ pc # "panic"

----------------------------------------------------------------------------
\* The progress flag of Pull and Push agrees with the callbacks made so far,
\* and is false when the operation returned without decoding a stream.
FlagTellsCallbacks ==
    op.name \in ProgressOps
    => /\ shown <=> emitted # <<>>
       /\ ProgressRefused => ~shown

\* A step of Pull or Push leaves a flag that is set as it is.
FlagStaysSet == (op.name \in ProgressOps /\ shown) => shown'

\* C38: on every return path of Pull and Push the progress flag is true
\* exactly when the progress callback was invoked at least once during the
\* call; once set it is never reset, and it is false whenever the operation
\* fails before the stream is decoded.
C38_ProgressShownFlag == [](FlagTellsCallbacks) /\ [][FlagStaysSet]_vars

\* C38 witness: Pull returned a stream error after one callback, the flag set.
C38_Witness ==
    /\ ProgressDone
    /\ op.name = "Pull"
    /\ shown
    /\ Len(emitted) = 1
    /\ res.err.kind = "stream_error"

\* C38 witness: Push succeeded without any callback, the flag not set.
C38_WitnessNoCallback ==
    /\ ProgressDone
    /\ op.name = "Push"
    /\ ~shown
    /\ emitted = <<>>
    /\ res.err = Nil

----------------------------------------------------------------------------
\* Pull, Push or Chat is in its scanner loop; the lines before pos are read.
Scanning == pc = "scan" /\ op.name \in ProgressOps \cup {"Chat"}

\* The operation has returned.
Returned == pc = "done"

\* A step of the loop reads the one next line of the stream, or finds the
\* stream at its end and returns.
ReadsNextOrReturns ==
    Scanning
    => \/ pos <= Len(stream) /\ pos' = pos + 1 /\ stream' = stream
       \/ pos > Len(stream) /\ pos' = pos /\ Returned'

\* No more lines are read than the stream has.
ReadsWithinStream ==
    (op.name \in ProgressOps \cup {"Chat"} /\ pc \in {"scan", "done"})
    => pos <= Len(stream) + 1

\* C39: over every finite response stream Pull, Push and Chat terminate.
\* Each line is read at most once and in order, never more lines than the
\* stream has; the loop does not wait at the end of the stream; and an
\* operation that is in its loop reaches a return.
C39_StreamingTerminates ==
    /\ [](ReadsWithinStream)
    /\ [][ReadsNextOrReturns]_vars
    /\ (Scanning ~> Returned)

\* C39 witness: Chat returned after reading all the lines of a stream
\* without "data: [DONE]".
C39_Witness ==
    /\ Returned
    /\ op.name = "Chat"
    /\ Len(stream) = MaxLines
    /\ pos = Len(stream) + 1
    /\ \A i \in 1..Len(stream) : stream[i].wire # "done"

\* C39 witness: Pull returned at the end of a stream of `progress` lines.
C39_WitnessTruncated ==
    /\ Returned
    /\ op.name = "Pull"
    /\ Len(stream) = MaxLines
    /\ pos = Len(stream) + 1
    /\ Len(emitted) = MaxLines
    /\ res.err.kind = "truncated"

====
